---------------------------- MODULE Spec2Model ----------------------------
(***************************************************************************)
(* Model of the data-quality run orchestrator (dq/engine.py) and of the    *)
(* rule evaluators it composes (dq/rules/*.py, dq/calendars.py).           *)
(*                                                                         *)
(* Dates are day numbers: day 1 is Monday 2021-12-27, so day 5 is Friday   *)
(* 2021-12-31, days 6 and 7 are the weekend of 1/2 January 2022 and day 8  *)
(* is Monday 2022-01-03.  Values are held as integers (ticks of 0.0001)    *)
(* and the rules' float arithmetic is done exactly on them.                *)
(***************************************************************************)
EXTENDS Integers, Sequences, FiniteSets, TLC

\* ------------------------------------------------------------------ bounds
\* number of run_dq calls in one behaviour (they may interleave)
MaxCalls == 2
\* number of days a vendor feed covers (days 1..MaxLen)
MaxLen == 5
\* the number of dates of the series handed to one rule on its own
MaxDays == 4
\* the longest run of equal values given to StaleRule
MaxRun == 8
\* how far the series given to CorrBreakRule are from window + 10 aligned dates
CorrSlack == 2
\* the length of the breach patterns given to the persistence filter
MaxBits == 5
\* the largest consecutive of a rule object
MaxConsecutive == 4
\* the longest series given to HampelRule
MaxSpikeLen == 32

\* ------------------------------------------------------- generic helpers
NULL == "null"
None == "none"

\* an optional argument (a keyword that may be absent, a value that may be
\* None): Nothing, or Some(x) holding x
Nothing == <<>>
Some(x) == <<x>>

Abs(x) == IF x < 0 THEN -x ELSE x
Min(a, b) == IF a <= b THEN a ELSE b
Max(a, b) == IF a >= b THEN a ELSE b

Range(s) == {s[i] : i \in 1..Len(s)}

Reverse(s) == [i \in 1..Len(s) |-> s[Len(s) + 1 - i]]

RECURSIVE SetToSortedSeq(_)
\* sorted(...) of a set of integers
SetToSortedSeq(S) ==
    IF S = {} THEN <<>>
    ELSE LET m == CHOOSE x \in S : \A y \in S : x <= y
         IN <<m>> \o SetToSortedSeq(S \ {m})

\* DataFrame.sort_values("date") / Series.sort_index(): ascending by date, by
\* stable insertion.  Rows of equal date keep the order they arrive in; the
\* arrival order is itself unspecified (see QueryRows), which covers any tie
\* order of the sort.
SortByDate(s) == SortSeq(s, LAMBDA a, b : a.d < b.d)

\* drop_duplicates("date", keep="last") / groupby(level=0).last()
DropDuplicatesKeepLast(s) ==
    LET keep(i) == \A j \in (i + 1)..Len(s) : s[j].d # s[i].d
        kept == SelectSeq([i \in 1..Len(s) |-> i], keep)
    IN [n \in 1..Len(kept) |-> s[kept[n]]]

\* A Series: sequence of [d |-> date, v |-> value], ascending unique dates.
\* A null (NaN) observation is a row without the field v.
NullRow(d) == [d |-> d, na |-> TRUE]

\* Series.dropna()
DropNa(s) == SelectSeq(s, LAMBDA r : "v" \in DOMAIN r)

Dates(s) == {s[i].d : i \in 1..Len(s)}
At(s, d) == LET i == CHOOSE k \in 1..Len(s) : s[k].d = d IN s[i].v
EmptySeries == <<>>

\* series.loc[(index >= start) & (index <= asof)]
SliceWindow(s, start, asof) ==
    SelectSeq(s, LAMBDA r : r.d >= start /\ r.d <= asof)

\* Series._dedup of the rules: dropna().sort_index(), keep last per date
Dedup(s) == DropDuplicatesKeepLast(SortByDate(DropNa(s)))

\* pd.DataFrame({"a": a, "b": b}).dropna().sort_index(): the dates on which
\* both series have a value, ascending
AlignedDates(a, b) == SetToSortedSeq(Dates(DropNa(a)) \cap Dates(DropNa(b)))

\* --------------------------------------------------------------- calendars
\* Monday = 0 ... Sunday = 6
Weekday(d) == (d - 1) % 7
IsWeekday(d) == Weekday(d) < 5

\* pandas nearest_workday: Saturday -> Friday, Sunday -> Monday
NearestWorkday(d) ==
    IF Weekday(d) = 5 THEN d - 1 ELSE IF Weekday(d) = 6 THEN d + 1 ELSE d

\* the fixed-date and floating holidays that fall next to the modelled days:
\* 25 and 26 December 2021, 1 January 2022, Martin Luther King Jr. Day
\* (third Monday of January, 2022-01-17); Easter, Labour Day and the later
\* US holidays lie months after the modelled days
HolidayDay ==
    [ChristmasDay |-> -1, BoxingDay |-> 0, NewYearsDay |-> 6, USMartinLutherKingJr |-> 22]

\* rules of NYSEHolidayCalendar, as observed dates
NYSEHolidayCalendar ==
    {NearestWorkday(HolidayDay.NewYearsDay), HolidayDay.USMartinLutherKingJr,
     NearestWorkday(HolidayDay.ChristmasDay)}

\* rules of USTreasuryHolidayCalendar, as observed dates
USTreasuryHolidayCalendar ==
    {NearestWorkday(HolidayDay.NewYearsDay), HolidayDay.USMartinLutherKingJr,
     NearestWorkday(HolidayDay.ChristmasDay)}

\* rules of TARGETLikeCalendar: New Year carries observance=nearest_workday,
\* Christmas and Boxing Day carry none
TARGETLikeCalendar ==
    {NearestWorkday(HolidayDay.NewYearsDay), HolidayDay.ChristmasDay, HolidayDay.BoxingDay}

\* calendar.holidays(start_ts, end_ts)
HolidaysIn(cal, start, end) == {h \in cal : h >= start /\ h <= end}

\* pd.bdate_range(start, end)
BDateRange(start, end) == {d \in start..end : IsWeekday(d)}

\* expected_dates(asset_class, start, end)
expected_dates(asset_class, start, end) ==
    IF asset_class = "equities"
    THEN BDateRange(start, end) \ HolidaysIn(NYSEHolidayCalendar, start, end)
    ELSE IF asset_class = "rates"
    THEN BDateRange(start, end) \ HolidaysIn(USTreasuryHolidayCalendar, start, end)
    ELSE IF asset_class = "fx"
    THEN BDateRange(start, end) \ HolidaysIn(TARGETLikeCalendar, start, end)
    ELSE BDateRange(start, end)

\* ------------------------------------------------------------ source names
\* the provider names, in lexicographic (str) order
SourceNamesSorted ==
    <<"ecb_fx", "ecb_fx_cross", "fred", "stooq", "twelvedata", "yfinance">>
SourceNames == Range(SourceNamesSorted)
LexRank(name) == CHOOSE i \in 1..Len(SourceNamesSorted) : SourceNamesSorted[i] = name

\* variant: sorted(keys)[-1]
SortedLast(keys) == CHOOSE k \in keys : \A o \in keys : LexRank(k) >= LexRank(o)

\* sorted(keys)[0]
SortedFirst(keys) == CHOOSE k \in keys : \A o \in keys : LexRank(k) <= LexRank(o)

AssetClasses == {"rates", "fx", "equities", "commodities"}

prefs_primary ==
    [rates |-> <<"fred", "stooq">>,
     fx |-> <<"twelvedata", "stooq", "ecb_fx">>,
     equities |-> <<"twelvedata", "stooq", "yfinance">>,
     commodities |-> <<"twelvedata", "stooq", "yfinance">>]

prefs_secondary ==
    [rates |-> <<"stooq", "twelvedata">>,
     fx |-> <<"stooq", "twelvedata", "ecb_fx">>,
     equities |-> <<"stooq", "twelvedata">>,
     commodities |-> <<"stooq", "twelvedata">>]

\* prefs.get(asset_class, [])
PrefsGet(prefs, asset_class) ==
    IF asset_class \in DOMAIN prefs THEN prefs[asset_class] ELSE <<>>

\* the for/break loops of _pick_sources: the first entry of list that is in
\* allowed, or None
FirstIn(list, allowed) ==
    IF \E i \in 1..Len(list) : list[i] \in allowed
    THEN list[CHOOSE i \in 1..Len(list) :
                 list[i] \in allowed /\ \A j \in 1..(i - 1) : list[j] \notin allowed]
    ELSE None

PickPrimary(asset_class, keys) ==
    LET p == FirstIn(PrefsGet(prefs_primary, asset_class), keys)
    IN IF p = None THEN SortedFirst(keys) ELSE p

\* variant: the secondary loop does not compare the candidate with primary
PickSecondaryAny(asset_class, keys, primary) ==
    FirstIn(PrefsGet(prefs_secondary, asset_class), keys)

PickSecondary(asset_class, keys, primary) ==
    FirstIn(PrefsGet(prefs_secondary, asset_class), keys \ {primary})

\* _pick_sources(asset_class, series_by_src) -> <<primary, secondary>>;
\* keys is the (non-empty) set of source names of series_by_src
_pick_sources(asset_class, keys) ==
    LET primary == PickPrimary(asset_class, keys)
    IN <<primary, PickSecondary(asset_class, keys, primary)>>

\* ------------------------------------------------------------ Issue (base.py)
Issue(rule, obs_date, severity, suggested_action, details) ==
    [rule |-> rule, obs_date |-> obs_date, severity |-> severity,
     suggested_action |-> suggested_action, details |-> details]

\* ------------------------------------------------- MissingBdaysRule (gaps.py)
\* variant: the null observations are not dropped before the comparison
MissingBdaysRunKeepNa(series, expected) ==
    LET s == SortByDate(series)
        exp == IF expected = Nothing
               THEN BDateRange(s[1].d, s[Len(s)].d)
               ELSE expected[1]
        missing == SetToSortedSeq({d \in exp : d \notin Dates(s)})
    IN IF s = <<>> THEN <<>>
       ELSE [i \in 1..Len(missing) |->
                Issue("gaps.missing_bdays", missing[i], 55, "interpolate",
                      [reason |-> "missing_expected_date"])]

\* variant: an empty series misses every expected date
MissingBdaysRunOnEmpty(series, expected) ==
    LET s == SortByDate(DropNa(series))
        exp == IF expected = Nothing
               THEN IF s = <<>> THEN {} ELSE BDateRange(s[1].d, s[Len(s)].d)
               ELSE expected[1]
        missing == SetToSortedSeq({d \in exp : d \notin Dates(s)})
    IN [i \in 1..Len(missing) |->
           Issue("gaps.missing_bdays", missing[i], 55, "interpolate",
                 [reason |-> "missing_expected_date"])]

\* MissingBdaysRule.run(series, expected_dates=expected); expected is optional
MissingBdaysRun(series, expected) ==
    LET s == SortByDate(DropNa(series))
        exp == IF expected = Nothing
               THEN BDateRange(s[1].d, s[Len(s)].d)
               ELSE expected[1]
        missing == SetToSortedSeq({d \in exp : d \notin Dates(s)})
    IN IF s = <<>> THEN <<>>
       ELSE [i \in 1..Len(missing) |->
                Issue("gaps.missing_bdays", missing[i], 55, "interpolate",
                      [reason |-> "missing_expected_date"])]

\* ---------------------------------------------------------- StaleRule (gaps.py)
\* StaleRule() defaults: min_streak = 3, atol = 0.0
StaleMinStreak == 3
StaleAtol == 0

\* variant: the severity is not capped at 100
StaleSeverityUncapped(streak) == 30 + 12 * streak

\* sev = int(min(100, 30 + 12 * streak))
StaleSeverity(streak) == Min(100, 30 + 12 * streak)

\* variant: the counter counts the equal values, a change leaving it at 1
RECURSIVE StaleLoopCountsValues(_, _, _, _, _)
StaleLoopCountsValues(s, i, streak, min_streak, atol) ==
    IF i > Len(s) THEN <<>>
    ELSE LET flag == i > 1 /\ Abs(s[i].v - s[i - 1].v) <= atol
             st == IF flag THEN streak + 1 ELSE 1
         IN (IF flag /\ st >= min_streak
             THEN <<Issue("gaps.stale", s[i].d, StaleSeverity(st), "review",
                          [streak |-> st])>>
             ELSE <<>>)
            \o StaleLoopCountsValues(s, i + 1, st, min_streak, atol)

\* the loop of StaleRule.run over unchanged.items(): issues for positions
\* i..Len(s), streak being the counter before position i
RECURSIVE StaleLoop(_, _, _, _, _)
StaleLoop(s, i, streak, min_streak, atol) ==
    IF i > Len(s) THEN <<>>
    ELSE LET flag == i > 1 /\ Abs(s[i].v - s[i - 1].v) <= atol
             st == IF flag THEN streak + 1 ELSE 0
         IN (IF flag /\ st >= min_streak
             THEN <<Issue("gaps.stale", s[i].d, StaleSeverity(st), "review",
                          [streak |-> st])>>
             ELSE <<>>)
            \o StaleLoop(s, i + 1, st, min_streak, atol)

\* StaleRule(min_streak, atol).run(series)
StaleRun(series, min_streak, atol) ==
    LET s == SortByDate(DropNa(series))
    IN IF Len(s) < min_streak + 1 THEN <<>>
       ELSE StaleLoop(s, 1, 0, min_streak, atol)

\* ------------------------------------------------ ReconcileRule (reconcile.py)
\* Values are held in ticks of 0.0001; returns and relative differences in
\* millionths.  ReconcileRule() defaults:
\* abs_tol = 0.0005, in ticks
AbsTolTicks == 5
\* pct_tol = 0.002, in thousandths
PctTolPerMille == 2
\* ret_tol = 0.003, in millionths
RetTolMicro == 3000
\* consecutive = 3
ReconConsecutive == 3
\* the fx calibration of run(): ret_tol = 0.004, consecutive = 3
FxRetTolMicro == 4000
FxConsecutive == 3
\* the equities calibration of run(): ret_tol = 0.006, consecutive = 2
EqRetTolMicro == 6000
EqConsecutive == 2

\* a / b rounded towards zero
TruncDiv(a, b) ==
    IF (a >= 0) = (b > 0) THEN Abs(a) \div Abs(b) ELSE 0 - (Abs(a) \div Abs(b))

\* a float that may be NaN or infinite: k in {"num", "nan", "inf", "-inf"}
Num(x) == [k |-> "num", x |-> x]
NaN == [k |-> "nan", x |-> 0]
PosInf == [k |-> "inf", x |-> 0]
NegInf == [k |-> "-inf", x |-> 0]

\* np.log(cur) - np.log(prev) in millionths, for cur, prev > 0:
\* ln(cur/prev) = 2 atanh(z) = 2 (z + z^3/3 + ...), z = (cur-prev)/(cur+prev)
LogReturnMicro(prev, cur) ==
    LET lo == Min(prev, cur)
        hi == Max(prev, cur)
        z == ((hi - lo) * 1000000) \div (hi + lo)
        z3 == (((z * z) \div 1000000) * z) \div 1000000
        ln == 2 * z + (2 * z3) \div 3
    IN IF cur >= prev THEN ln ELSE 0 - ln

\* Series.pct_change() in millionths: cur / prev - 1
PctChange(prev, cur) ==
    IF prev = 0
    THEN (IF cur = 0 THEN NaN ELSE IF cur > 0 THEN PosInf ELSE NegInf)
    ELSE Num(TruncDiv((cur - prev) * 1000000, prev))

\* ReconcileRule._returns(s): per position the return from the previous one
\* (NaN at the first); log-returns when every value is > 0 and use_log_returns
Returns(s, use_log_returns) ==
    LET d == Dedup(s)
        allpos == \A i \in 1..Len(d) : d[i].v > 0
    IN [i \in 1..Len(d) |->
          [d |-> d[i].d,
           r |-> IF i = 1 THEN NaN
                 ELSE IF use_log_returns /\ allpos
                      THEN Num(LogReturnMicro(d[i - 1].v, d[i].v))
                      ELSE PctChange(d[i - 1].v, d[i].v)]]

\* (ra - rb).abs() of two floats
AbsDiff(x, y) ==
    IF x.k = "nan" \/ y.k = "nan" THEN NaN
    ELSE IF x.k = "num" /\ y.k = "num" THEN Num(Abs(x.x - y.x))
    ELSE IF x.k = y.k THEN NaN
    ELSE PosInf

\* variant: a return difference equal to the tolerance is a breach
GreaterOrEqual(x, tol) == x.k = "inf" \/ (x.k = "num" /\ x.x >= tol)

\* x > tol for a float x and a finite tol
Greater(x, tol) == x.k = "inf" \/ (x.k = "num" /\ x.x > tol)

\* variant: the pass looks at the following position, shift(-1)
StreakStepForward(streak) ==
    [i \in 1..Len(streak) |-> streak[i] /\ (i < Len(streak) /\ streak[i + 1])]

\* one pass of: streak = streak & streak.shift(1).fillna(False)
StreakStep(streak) ==
    [i \in 1..Len(streak) |-> streak[i] /\ (i > 1 /\ streak[i - 1])]

RECURSIVE StreakPasses(_, _)
\* for _ in range(n): streak = streak & streak.shift(1).fillna(False)
StreakPasses(streak, n) ==
    IF n <= 0 THEN streak ELSE StreakPasses(StreakStep(streak), n - 1)

\* the persistence filter: breach, or (consecutive > 1) the sliding AND
PersistenceFilter(breach, consecutive) ==
    IF consecutive > 1 THEN StreakPasses(breach, consecutive - 1) ELSE breach

\* variant: the severity grows from 70 at the tolerance to 100 at 5 times it
ReturnsSeverityFromTolerance(dv, ret_tol) ==
    IF dv.k = "inf" \/ dv.x >= 5 * ret_tol THEN 100
    ELSE Min(100, 70 + (30 * (dv.x - ret_tol)) \div (4 * ret_tol))

\* sev = int(min(100, 70 + 30 * min(1.0, dv / (5 * ret_tol))))
ReturnsSeverity(dv, ret_tol) ==
    IF dv.k = "inf" \/ dv.x >= 5 * ret_tol THEN 100
    ELSE Min(100, 70 + (30 * dv.x) \div (5 * ret_tol))

\* sev = int(min(100, 70 + 30 * min(1.0, pdiff / (5 * pct_tol)))), where
\* pdiff = ad / |a| and pct_tol is in thousandths
LevelSeverity(ad, a, pct_tol) ==
    IF 1000 * ad >= 5 * pct_tol * Abs(a) THEN 100
    ELSE Min(100, 70 + (30 * 1000 * ad) \div (5 * pct_tol * Abs(a)))

\* the frame df = DataFrame({"a": a, "b": b}).dropna().sort_index(), one column
AlignedColumn(s, dates) == [i \in 1..Len(dates) |-> [d |-> dates[i], v |-> At(s, dates[i])]]

\* rdiff = (ra - rb).abs().dropna(), with the returns of both sides
ReturnDiffRows(ra, rb) ==
    SelectSeq([i \in 1..Len(ra) |-> [d |-> ra[i].d, v |-> AbsDiff(ra[i].r, rb[i].r),
                                     a |-> ra[i].r, b |-> rb[i].r]],
              LAMBDA e : e.v.k # "nan")

\* breach = rdiff > ret_tol, through the persistence filter
ReturnsBreach(rdiff, ret_tol, consecutive) ==
    PersistenceFilter([i \in 1..Len(rdiff) |-> Greater(rdiff[i].v, ret_tol)], consecutive)

\* the Issue of one breaching date
ReturnsIssue(e, ret_tol, consecutive) ==
    Issue("reconcile.returns_diff", e.d, ReturnsSeverity(e.v, ret_tol), "source_switch",
          [mode |-> "returns", ret_diff |-> e.v, ret_tol |-> ret_tol,
           a_ret |-> e.a, b_ret |-> e.b, consecutive |-> consecutive])

\* for d in breach[breach].index: out.append(Issue(...))
ReturnsIssues(rdiff, breach, ret_tol, consecutive) ==
    LET hits == SelectSeq([i \in 1..Len(rdiff) |-> i], LAMBDA i : breach[i])
    IN [n \in 1..Len(hits) |-> ReturnsIssue(rdiff[hits[n]], ret_tol, consecutive)]

\* the returns branch of ReconcileRule.run from rdiff on
ReturnsOnDiffs(rdiff, ret_tol, consecutive) ==
    ReturnsIssues(rdiff, ReturnsBreach(rdiff, ret_tol, consecutive), ret_tol, consecutive)

\* the returns branch of ReconcileRule.run
ReconcileReturns(a, b, ret_tol, consecutive, use_log_returns) ==
    ReturnsOnDiffs(ReturnDiffRows(Returns(a, use_log_returns), Returns(b, use_log_returns)),
                   ret_tol, consecutive)

\* the level branch of ReconcileRule.run
ReconcileLevel(a, b, abs_tol, pct_tol, consecutive) ==
    LET ad(i) == Abs(a[i].v - b[i].v)
        raw == [i \in 1..Len(a) |->
                  ad(i) > abs_tol
                  /\ a[i].v # 0
                  /\ ad(i) * 1000 > pct_tol * Abs(a[i].v)]
        breach == PersistenceFilter(raw, consecutive)
        hits == SelectSeq([i \in 1..Len(a) |-> [i |-> i, f |-> breach[i]]],
                          LAMBDA h : h.f)
    IN [n \in 1..Len(hits) |->
          LET i == hits[n].i
          IN Issue("reconcile.abs_pct", a[i].d,
                   LevelSeverity(ad(i), a[i].v, pct_tol), "source_switch",
                   [mode |-> "level", abs_diff |-> ad(i),
                    pct_diff |-> (ad(i) * 1000000) \div Abs(a[i].v),
                    abs_tol |-> abs_tol, pct_tol |-> pct_tol,
                    consecutive |-> consecutive])]

\* ReconcileRule().run(series, other_series=other, asset_class=..., mode=...);
\* other is optional, asset_class = "" and mode = "" stand for an absent keyword
ReconcileRun(series, other, asset_class, mode) ==
    LET ret_tol == IF asset_class = "fx" THEN FxRetTolMicro
                   ELSE IF asset_class = "equities" THEN EqRetTolMicro
                   ELSE RetTolMicro
        consecutive == IF asset_class = "fx" THEN FxConsecutive
                       ELSE IF asset_class = "equities" THEN EqConsecutive
                       ELSE Max(1, ReconConsecutive)
        m == IF mode # "" THEN mode
             ELSE IF asset_class \in {"fx", "equities", "commodities"}
                  THEN "returns" ELSE "level"
        a == Dedup(series)
        b == Dedup(other[1])
        dates == AlignedDates(a, b)
        dfa == AlignedColumn(a, dates)
        dfb == AlignedColumn(b, dates)
    IN IF other = Nothing THEN <<>>
       ELSE IF dates = <<>> THEN <<>>
       ELSE IF m = "returns"
            THEN ReconcileReturns(dfa, dfb, ret_tol, consecutive, TRUE)
            ELSE ReconcileLevel(dfa, dfb, AbsTolTicks, PctTolPerMille,
                                Max(1, ReconConsecutive))

\* ReconcileRule(abs_tol, pct_tol, ret_tol, consecutive, use_log_returns), the
\* fields of the rule object after __init__
ReconcileRule(abs_tol, pct_tol, ret_tol, consecutive, use_log_returns) ==
    [abs_tol |-> abs_tol, pct_tol |-> pct_tol, ret_tol |-> ret_tol,
     consecutive |-> Max(1, consecutive), use_log_returns |-> use_log_returns]

\* self.run(series, other_series=other, asset_class=..., mode=...) of a rule
\* object self built with any parameters
ReconcileWith(self, series, other, asset_class, mode) ==
    LET ret_tol == IF asset_class = "fx" THEN FxRetTolMicro
                   ELSE IF asset_class = "equities" THEN EqRetTolMicro
                   ELSE self.ret_tol
        consecutive == IF asset_class = "fx" THEN FxConsecutive
                       ELSE IF asset_class = "equities" THEN EqConsecutive
                       ELSE self.consecutive
        m == IF mode # "" THEN mode
             ELSE IF asset_class \in {"fx", "equities", "commodities"}
                  THEN "returns" ELSE "level"
        a == Dedup(series)
        b == Dedup(other[1])
        dates == AlignedDates(a, b)
        dfa == AlignedColumn(a, dates)
        dfb == AlignedColumn(b, dates)
    IN IF other = Nothing THEN <<>>
       ELSE IF dates = <<>> THEN <<>>
       ELSE IF m = "returns"
            THEN ReconcileReturns(dfa, dfb, ret_tol, consecutive, self.use_log_returns)
            ELSE ReconcileLevel(dfa, dfb, self.abs_tol, self.pct_tol, self.consecutive)

\* ------------------------------------------------------ HampelRule (spikes.py)
\* HampelRule() defaults: window = 21, n_sigmas = 6.0
HampelWindow == 21
HampelNSigmas == 6
\* the cold-start length of run(): len(x) < 30
HampelMinLen == 30
\* the threshold of |z| between "winsorize" and "remove"
HampelRemoveZ == 12

RECURSIVE InsertInt(_, _)
InsertInt(sorted, x) ==
    IF sorted = <<>> THEN <<x>>
    ELSE IF x <= Head(sorted) THEN <<x>> \o sorted
         ELSE <<Head(sorted)>> \o InsertInt(Tail(sorted), x)

RECURSIVE SortInts(_)
SortInts(s) ==
    IF s = <<>> THEN <<>> ELSE InsertInt(SortInts(Tail(s)), Head(s))

\* twice the median of a non-empty sequence of integers (the median of an
\* even count is the mean of the two middle values)
Median2(s) ==
    LET t == SortInts(s)
        n == Len(t)
    IN IF n % 2 = 1 THEN 2 * t[(n + 1) \div 2] ELSE t[n \div 2] + t[n \div 2 + 1]

\* x.rolling(window, center=True, min_periods=mp).median() at position i of
\* xs, a sequence of floats (Num or NaN): twice the median, or NaN
RollingMedian2(xs, i, window, mp) ==
    LET half == (window - 1) \div 2
        lo == Max(1, i - half)
        hi == Min(Len(xs), i + half)
        vals == SelectSeq(SubSeq(xs, lo, hi), LAMBDA e : e.k = "num")
    IN IF Len(vals) < mp THEN NaN
       ELSE Num(Median2([j \in 1..Len(vals) |-> vals[j].x]))

\* variant: the cold start ends at the window length
HampelColdStartAtWindow(x) == Len(x) < HampelWindow

\* if len(x) < 30: return []
HampelColdStart(x) == Len(x) < HampelMinLen

\* variant: a rolling MAD of 0 is kept as the scale, so that z is infinite on
\* every date that differs from its median
HampelRunZeroScale(series, window, n_sigmas) ==
    LET x == DropNa(series)
        mp == Max(10, window \div 3)
        xs == [i \in 1..Len(x) |-> Num(x[i].v)]
        med2 == [i \in 1..Len(x) |-> RollingMedian2(xs, i, window, mp)]
        dev2 == [i \in 1..Len(x) |->
                   IF med2[i].k = "nan" THEN NaN ELSE Num(Abs(2 * x[i].v - med2[i].x))]
        mad4 == [i \in 1..Len(x) |-> RollingMedian2(dev2, i, window, mp)]
        defined(i) == med2[i].k = "num" /\ mad4[i].k = "num"
                      /\ (mad4[i].x # 0 \/ dev2[i].x # 0)
        zAtLeast(i, t) == 2 * dev2[i].x * 10000 >= t * 14826 * mad4[i].x
        hits == SelectSeq([i \in 1..Len(x) |-> i],
                          LAMBDA i : defined(i) /\ zAtLeast(i, n_sigmas))
    IN IF HampelColdStart(x) THEN <<>>
       ELSE [n \in 1..Len(hits) |->
               LET i == hits[n]
               IN Issue("spikes.hampel", x[i].d, 100,
                        IF zAtLeast(i, HampelRemoveZ) THEN "remove" ELSE "winsorize",
                        [z_robust_num |-> 2 * (2 * x[i].v - med2[i].x) * 10000,
                         z_robust_den |-> 14826 * mad4[i].x,
                         window |-> window, n_sigmas |-> n_sigmas])]

\* HampelRule(window, n_sigmas).run(series).  With m2 = 2*med and
\* mad4 = 4*mad: z = (x - med) / (1.4826 * mad) = 2*(2x - m2) / (1.4826 * mad4)
HampelRun(series, window, n_sigmas) ==
    LET x == DropNa(series)
        mp == Max(10, window \div 3)
        xs == [i \in 1..Len(x) |-> Num(x[i].v)]
        med2 == [i \in 1..Len(x) |-> RollingMedian2(xs, i, window, mp)]
        dev2 == [i \in 1..Len(x) |->
                   IF med2[i].k = "nan" THEN NaN ELSE Num(Abs(2 * x[i].v - med2[i].x))]
        mad4 == [i \in 1..Len(x) |-> RollingMedian2(dev2, i, window, mp)]
        defined(i) == med2[i].k = "num" /\ mad4[i].k = "num" /\ mad4[i].x # 0
        \* |z| >= t
        zAtLeast(i, t) == 2 * dev2[i].x * 10000 >= t * 14826 * mad4[i].x
        hits == SelectSeq([i \in 1..Len(x) |-> i],
                          LAMBDA i : defined(i) /\ zAtLeast(i, n_sigmas))
        \* int(min(100, 40 + 10 * abs(zz)))
        sev(i) == IF zAtLeast(i, 6) THEN 100
                  ELSE Min(100, 40 + (10 * 2 * dev2[i].x * 10000) \div (14826 * mad4[i].x))
    IN IF HampelColdStart(x) THEN <<>>
       ELSE [n \in 1..Len(hits) |->
               LET i == hits[n]
               IN Issue("spikes.hampel", x[i].d, sev(i),
                        IF zAtLeast(i, HampelRemoveZ) THEN "remove" ELSE "winsorize",
                        [z_robust_num |-> 2 * (2 * x[i].v - med2[i].x) * 10000,
                         z_robust_den |-> 14826 * mad4[i].x,
                         window |-> window, n_sigmas |-> n_sigmas])]

\* ------------------------------------------------ FXTriangleRule (relations.py)
\* FXTriangleRule() defaults: threshold_abs_pct = 0.005 (in thousandths),
\* consecutive = 3
FxThresholdPerMille == 5
FxTriConsecutive == 3

\* FXTriangleRule(threshold, consecutive, rule_suffix).run(series, ab, bc, ac);
\* the legs are optional, None stands for no suffix.  With values in ticks of 1/10000,
\* implied/ac - 1 = (ab*bc - 10000*ac) / (10000*ac): E is its numerator's
\* size and T the threshold on the same scale
FXTriangleRun(ab0, bc0, ac0, threshold, consecutive0, rule_suffix) ==
    LET consecutive == Max(1, consecutive0)
        ab == Dedup(ab0[1])
        bc == Dedup(bc0[1])
        ac == Dedup(ac0[1])
        dates == SetToSortedSeq(Dates(ab) \cap Dates(bc) \cap Dates(ac))
        AB(i) == At(ab, dates[i])
        BC(i) == At(bc, dates[i])
        AC(i) == At(ac, dates[i])
        E(i) == Abs(AB(i) * BC(i) - 10000 * AC(i))
        T(i) == threshold * 10 * Abs(AC(i))
        \* abs_pct > threshold; x/0 is inf (breach) unless x = 0 (NaN)
        raw == [i \in 1..Len(dates) |->
                  IF AC(i) = 0 THEN AB(i) * BC(i) # 0 ELSE E(i) > T(i)]
        streak == StreakPasses(raw, consecutive - 1)
        hits == SelectSeq([i \in 1..Len(dates) |-> i], LAMBDA i : streak[i])
        rule == IF rule_suffix = None \/ rule_suffix = ""
                THEN "relations.fx_triangle"
                ELSE "relations.fx_triangle." \o rule_suffix
        \* int(min(100, 60 + 40 * min(1.0, (ratio - 1.0) / 4.0)))
        sev(i) == IF AC(i) = 0 \/ E(i) >= 5 * T(i) THEN 100
                  ELSE Min(100, 60 + (10 * (E(i) - T(i))) \div T(i))
    IN IF ab0 = Nothing \/ bc0 = Nothing \/ ac0 = Nothing THEN <<>>
       ELSE [n \in 1..Len(hits) |->
               LET i == hits[n]
               IN Issue(rule, dates[i], sev(i), "source_switch",
                        [abs_pct_num |-> E(i), abs_pct_den |-> 10000 * Abs(AC(i)),
                         threshold |-> threshold, consecutive |-> consecutive,
                         implied |-> AB(i) * BC(i), observed |-> AC(i)])]

\* -------------------------------------------------- CorrBreakRule (relations.py)
\* CorrBreakRule() defaults: window = 60, min_abs_corr = 0.2 (in hundredths)
CorrWindow == 60
CorrMinAbsPct == 20
\* the extra aligned points run() asks for beyond the window
CorrExtraPoints == 10

RECURSIVE CmpFrac(_, _, _, _)
\* the sign (-1, 0, 1) of a/c - d/b for a, d >= 0 and c, b > 0, by continued
\* fractions, so that no product is formed
CmpFrac(a, c, d, b) ==
    LET q1 == a \div c
        q2 == d \div b
        r1 == a % c
        r2 == d % b
    IN IF q1 < q2 THEN -1
       ELSE IF q1 > q2 THEN 1
       ELSE IF r1 = 0 /\ r2 = 0 THEN 0
       ELSE IF r1 = 0 THEN -1
       ELSE IF r2 = 0 THEN 1
       ELSE 0 - CmpFrac(c, r1, b, r2)

RECURSIVE SumOver(_, _, _)
\* sum of f[i] for i in lo..hi
SumOver(f, lo, hi) == IF lo > hi THEN 0 ELSE f[lo] + SumOver(f, lo + 1, hi)

\* the Pearson sums of the window ending at position i, on values taken
\* relative to the window's first row (correlation is shift-invariant):
\* cov = n*Sxy - Sx*Sy, vx = n*Sxx - Sx^2, vy = n*Syy - Sy^2.  Exact while the
\* sums stay below 2^31 (cov^2 included).
PearsonSums(xs, ys, i, n) ==
    LET lo == i - n + 1
        dx == [j \in lo..i |-> xs[j] - xs[lo]]
        dy == [j \in lo..i |-> ys[j] - ys[lo]]
        Sx == SumOver(dx, lo, i)
        Sy == SumOver(dy, lo, i)
        Sxy == SumOver([j \in lo..i |-> dx[j] * dy[j]], lo, i)
        Sxx == SumOver([j \in lo..i |-> dx[j] * dx[j]], lo, i)
        Syy == SumOver([j \in lo..i |-> dy[j] * dy[j]], lo, i)
    IN [cov |-> n * Sxy - Sx * Sy, vx |-> n * Sxx - Sx * Sx, vy |-> n * Syy - Sy * Sy]

\* |corr| * den <= num, i.e. cov^2 * den^2 <= num^2 * vx * vy (vx, vy > 0)
AbsCorrAtMost(p, num, den) ==
    CmpFrac(p.cov * p.cov, p.vx, num * num * p.vy, den * den) <= 0

\* variant: the severity is not capped at 100
CorrSeverityUncapped(p, min_abs_pct) ==
    LET slope == 5000 \div min_abs_pct
        k == CHOOSE k \in 0..50 :
                /\ AbsCorrAtMost(p, k, slope)
                /\ \A j \in 0..(k - 1) : ~AbsCorrAtMost(p, j, slope)
    IN 120 - k

\* sev = int(min(100, 70 + 50 * (m - |c|) / max(1e-6, m))) for |c| < m, the
\* slope 50/m being 5000 \div min_abs_pct: 120 - ceil(slope * |c|), capped
CorrSeverity(p, min_abs_pct) ==
    LET slope == 5000 \div min_abs_pct
        k == CHOOSE k \in 0..50 :
                /\ AbsCorrAtMost(p, k, slope)
                /\ \A j \in 0..(k - 1) : ~AbsCorrAtMost(p, j, slope)
    IN Min(100, 120 - k)

\* variant: a full window of aligned points is enough
CorrTooShortForWindow(n, window) == n < window

\* if len(df) < self.window + 10: return []
CorrTooShort(n, window) == n < window + CorrExtraPoints

\* CorrBreakRule(window, min_abs_corr).run(series, peer_series=peer); peer is
\* optional
CorrBreakRun(series, peer0, window, min_abs_pct) ==
    LET peer == peer0[1]
        dates == AlignedDates(series, peer)
        xs == [i \in 1..Len(dates) |-> At(series, dates[i])]
        ys == [i \in 1..Len(dates) |-> At(peer, dates[i])]
        sums(i) == PearsonSums(xs, ys, i, window)
        \* corr.dropna(): a zero variance gives NaN; abs(c) < min_abs_corr
        low(p) == /\ p.vx > 0 /\ p.vy > 0
                  /\ CmpFrac(p.cov * p.cov, p.vx, min_abs_pct * min_abs_pct * p.vy,
                             10000) < 0
        hits == SelectSeq([i \in 1..Len(dates) |-> i],
                          LAMBDA i : i >= window /\ low(sums(i)))
        issue(d, p) == Issue("relations.corr_break", d, CorrSeverity(p, min_abs_pct),
                             "review",
                             [rolling_corr_cov |-> p.cov, rolling_corr_vx |-> p.vx,
                              rolling_corr_vy |-> p.vy, window |-> window])
    IN IF peer0 = Nothing THEN <<>>
       ELSE IF CorrTooShort(Len(dates), window) THEN <<>>
       ELSE [n \in 1..Len(hits) |-> issue(dates[hits[n]], sums(hits[n]))]

\* ------------------------------------------------------------------ the store
VARIABLES
    observation,    \* table Observation: rows in insertion (id) order
    dqrun,          \* table DQRun: row i has id i
    dqexception,    \* table DQException: row i has id i
    call,           \* per run_dq call: its position and local variables
    probe           \* a single application of a pure function: input and result

vars == <<observation, dqrun, dqexception, call, probe>>

Calls == 1..MaxCalls

\* table RiskFactor: id -> asset_class
riskfactor ==
    [EURUSD |-> "fx", US10Y |-> "rates", USDGBP |-> "fx", EURGBP |-> "fx", US2Y |-> "rates"]

\* table DataSource: row i has id i.  Two rows may share a name (the same
\* vendor under two symbols), upsert_data_source keys on (name, symbol, field)
datasource ==
    <<[name |-> "twelvedata", symbol |-> "EUR/USD"],
      [name |-> "stooq", symbol |-> "eurusd"],
      [name |-> "stooq", symbol |-> "eurusd.fx"],
      [name |-> "twelvedata", symbol |-> "USD/GBP"],
      [name |-> "twelvedata", symbol |-> "EUR/GBP"],
      [name |-> "stooq", symbol |-> "usdgbp"],
      [name |-> "stooq", symbol |-> "eurgbp"],
      [name |-> "ecb_fx", symbol |-> "EURUSD"],
      [name |-> "ecb_fx_cross", symbol |-> "USDGBP"],
      [name |-> "ecb_fx", symbol |-> "EURGBP"],
      [name |-> "fred", symbol |-> "DGS10"],
      [name |-> "stooq", symbol |-> "2yusy.b"],
      [name |-> "fred", symbol |-> "DGS2"]>>

\* what a vendor returned for days 1..MaxLen, in ticks of 0.0001
Flat(v) == [i \in 1..MaxLen |-> v]
Zigzag(v) == [i \in 1..MaxLen |-> v + 100 * (i % 2)]
Absent == <<>>

\* the feeds ingestion may have stored for EURUSD, per DataSource id
FeedChoices ==
    <<{Absent, Flat(10000), Zigzag(10000)}, {Absent, Flat(10100)}, {Absent, Flat(10000)}>>

\* the rows ingest_series adds for one feed
FeedRows(rf_id, source_id, frame) ==
    [i \in 1..Len(frame) |->
        [risk_factor_id |-> rf_id, source_id |-> source_id, obs_date |-> i,
         value |-> frame[i]]]

\* the Observation tables the runs may start from
Stores ==
    {FeedRows("EURUSD", 1, f1) \o FeedRows("EURUSD", 2, f2) \o FeedRows("EURUSD", 3, f3) :
        f1 \in FeedChoices[1], f2 \in FeedChoices[2], f3 \in FeedChoices[3]}

\* the feeds of the three legs of the EUR/USD/GBP triangle, per vendor: risk
\* factor, DataSource id and the flat level the vendor quotes.  Every bucket of
\* run_dq is off by more than the threshold when its three legs are stored
FxLegs ==
    <<[rf |-> "EURUSD", source_id |-> 1, v |-> 10000],
      [rf |-> "EURUSD", source_id |-> 2, v |-> 10100],
      [rf |-> "EURUSD", source_id |-> 8, v |-> 10000],
      [rf |-> "USDGBP", source_id |-> 4, v |-> 10100],
      [rf |-> "USDGBP", source_id |-> 6, v |-> 10000],
      [rf |-> "USDGBP", source_id |-> 9, v |-> 10000],
      [rf |-> "EURGBP", source_id |-> 5, v |-> 10000],
      [rf |-> "EURGBP", source_id |-> 7, v |-> 10000],
      [rf |-> "EURGBP", source_id |-> 10, v |-> 10300]>>

RECURSIVE LegRows(_, _)
\* the rows of the legs of present, from leg i on
LegRows(present, i) ==
    IF i > Len(FxLegs) THEN <<>>
    ELSE (IF i \in present
          THEN FeedRows(FxLegs[i].rf, FxLegs[i].source_id, Flat(FxLegs[i].v))
          ELSE <<>>) \o LegRows(present, i + 1)

\* the Observation tables after the ingestion of the legs, of which EURUSD
\* from twelvedata, USDGBP from stooq and from ecb_fx_cross and EURGBP from
\* ecb_fx may have failed
FxStores == {LegRows(present \cup {2, 3, 4, 7, 8}, 1) : present \in SUBSET {1, 5, 6, 9}}

\* SQL fixes no order for a SELECT without ORDER BY: the rows come back by
\* ascending or by descending id
RowOrders == {"asc", "desc"}

\* the rows of select(obs_date, value, DataSource.name).join(...).where(
\* risk_factor_id == rf_id), in the order the store returns them
QueryRows(obs, rf_id, ord) ==
    LET hit == SelectSeq(obs, LAMBDA r : r.risk_factor_id = rf_id)
        rows == [i \in 1..Len(hit) |->
                   [d |-> hit[i].obs_date, v |-> hit[i].value,
                    source |-> datasource[hit[i].source_id].name]]
    IN IF ord = "asc" THEN rows ELSE Reverse(rows)

\* load_series(rf_id): source name -> Series
load_series(obs, rf_id, ord) ==
    LET rows == QueryRows(obs, rf_id, ord)
        names == {rows[i].source : i \in 1..Len(rows)}
        group(src) == SelectSeq(rows, LAMBDA r : r.source = src)
        ser(src) == LET tmp == DropDuplicatesKeepLast(SortByDate(group(src)))
                    IN SortByDate([i \in 1..Len(tmp) |-> [d |-> tmp[i].d, v |-> tmp[i].v]])
    IN [src \in names |-> ser(src)]

\* ------------------------------------------------------------ run_dq (engine.py)
\* variant: the ecb bucket takes its three legs from ecb_fx
FxBucketsSameName ==
    <<[label |-> "twelvedata", ab |-> "twelvedata", bc |-> "twelvedata", ac |-> "twelvedata"],
      [label |-> "stooq", ab |-> "stooq", bc |-> "stooq", ac |-> "stooq"],
      [label |-> "ecb", ab |-> "ecb_fx", bc |-> "ecb_fx", ac |-> "ecb_fx"]>>

\* the vendor buckets of the FX triangle, in the order run_dq tries them
FxBuckets ==
    <<[label |-> "twelvedata", ab |-> "twelvedata", bc |-> "twelvedata", ac |-> "twelvedata"],
      [label |-> "stooq", ab |-> "stooq", bc |-> "stooq", ac |-> "stooq"],
      [label |-> "ecb", ab |-> "ecb_fx", bc |-> "ecb_fx_cross", ac |-> "ecb_fx"]>>

\* variant: the loop does not break, the last available bucket wins
FxTriangleStepLast(eurusd, usdgbp, eurgbp) ==
    LET ok(b) == b.ab \in DOMAIN eurusd /\ b.bc \in DOMAIN usdgbp /\ b.ac \in DOMAIN eurgbp
    IN IF \E i \in 1..Len(FxBuckets) : ok(FxBuckets[i])
       THEN LET i == CHOOSE k \in 1..Len(FxBuckets) :
                        ok(FxBuckets[k]) /\ \A j \in (k + 1)..Len(FxBuckets) : ~ok(FxBuckets[j])
                b == FxBuckets[i]
            IN [bucket |-> b.label, legs |-> <<b.ab, b.bc, b.ac>>,
                issues |-> FXTriangleRun(Some(eurusd[b.ab]), Some(usdgbp[b.bc]),
                                         Some(eurgbp[b.ac]),
                                         FxThresholdPerMille, FxTriConsecutive, b.label)]
       ELSE [bucket |-> None, legs |-> <<>>, issues |-> <<>>]

\* the bucket loop of run_dq: the issues of the first bucket whose three legs
\* are all available, none when there is no such bucket
FxTriangleStep(eurusd, usdgbp, eurgbp) ==
    LET ok(b) == b.ab \in DOMAIN eurusd /\ b.bc \in DOMAIN usdgbp /\ b.ac \in DOMAIN eurgbp
    IN IF \E i \in 1..Len(FxBuckets) : ok(FxBuckets[i])
       THEN LET i == CHOOSE k \in 1..Len(FxBuckets) :
                        ok(FxBuckets[k]) /\ \A j \in 1..(k - 1) : ~ok(FxBuckets[j])
                b == FxBuckets[i]
            IN [bucket |-> b.label, legs |-> <<b.ab, b.bc, b.ac>>,
                issues |-> FXTriangleRun(Some(eurusd[b.ab]), Some(usdgbp[b.bc]),
                                         Some(eurgbp[b.ac]),
                                         FxThresholdPerMille, FxTriConsecutive, b.label)]
       ELSE [bucket |-> None, legs |-> <<>>, issues |-> <<>>]

\* the Reconciliation step of run_dq: RECON.run(primary, other_series=other)
ReconStep(primary, other) == ReconcileRun(primary, Some(other), "", "")

\* lines 93-148 of run_dq: everything between load_series and the final
\* session, for the loaded series_by_src (non-empty)
Evaluation(obs, a, ord, series_by_src) ==
    LET start == a.asof - a.lookback_days
        expected == expected_dates(a.asset_class, start, a.asof)
        picked == _pick_sources(a.asset_class, DOMAIN series_by_src)
        primary == SliceWindow(series_by_src[picked[1]], start, a.asof)
        other == IF picked[2] = None THEN Nothing
                 ELSE Some(SliceWindow(series_by_src[picked[2]], start, a.asof))
        base == HampelRun(primary, HampelWindow, HampelNSigmas)
                \o MissingBdaysRun(primary, Some(expected))
                \o StaleRun(primary, StaleMinStreak, StaleAtol)
        recon_call == IF picked[2] # None
                      THEN Some([series |-> primary, other_series |-> other[1]])
                      ELSE Nothing
        recon == IF recon_call # Nothing
                 THEN ReconStep(recon_call[1].series, recon_call[1].other_series)
                 ELSE <<>>
        peers == load_series(obs, "US2Y", ord)
        corr_on == a.asset_class = "rates" /\ a.risk_factor_id = "US10Y"
                   /\ DOMAIN peers # {}
        corr == IF corr_on
                THEN CorrBreakRun(primary, Some(peers[SortedFirst(DOMAIN peers)]),
                                  CorrWindow, CorrMinAbsPct)
                ELSE <<>>
        fx == IF a.asset_class = "fx"
              THEN FxTriangleStep(load_series(obs, "EURUSD", ord),
                                  load_series(obs, "USDGBP", ord),
                                  load_series(obs, "EURGBP", ord))
              ELSE [bucket |-> None, legs |-> <<>>, issues |-> <<>>]
    IN [primary_src |-> picked[1], other_src |-> picked[2],
        primary |-> primary, other |-> other,
        recon_call |-> recon_call, corr_on |-> corr_on, fx_bucket |-> fx.bucket,
        fx_legs |-> fx.legs,
        issues |-> base \o recon \o corr \o fx.issues]

\* the arguments the callers pass to run_dq(asset_class, risk_factor_id, asof,
\* lookback_days): EURUSD under every asset class, US10Y (registered, never
\* ingested) and NOPE (not registered) as rates.  asof is three days after the
\* feeds end and the window [asof - lookback_days, asof] starts on day 2, so
\* that it cuts the first day of every feed and ends on a day without data.
AsOfs == {MaxLen + 3}
Lookbacks == {MaxLen + 1}
RunArgs ==
    {a \in [asset_class : AssetClasses, risk_factor_id : {"EURUSD", "US10Y", "NOPE"},
            asof : AsOfs, lookback_days : Lookbacks] :
        a.risk_factor_id = "EURUSD" \/ a.asset_class = "rates"}

NoArgs == [asset_class |-> "", risk_factor_id |-> "", asof |-> 0, lookback_days |-> 0]

\* the locals of a call that has not evaluated anything yet
NoEvaluation ==
    [primary_src |-> None, other_src |-> None, primary |-> EmptySeries, other |-> Nothing,
     recon_call |-> Nothing, corr_on |-> FALSE, fx_bucket |-> None, fx_legs |-> <<>>,
     issues |-> <<>>]

IdleCall ==
    [pc |-> "idle", args |-> NoArgs, run_id |-> 0, err |-> None, ev |-> NoEvaluation]

NoProbe == [fn |-> None]

Init ==
    /\ observation \in Stores
    /\ dqrun = <<>>
    /\ dqexception = <<>>
    /\ call = [c \in Calls |-> IdleCall]
    /\ probe = NoProbe

\* s.get(RiskFactor, risk_factor_id) is not None
RiskFactorExists(risk_factor_id) == risk_factor_id \in DOMAIN riskfactor

\* DQRun(asset_class=..., risk_factor_id=..., asof=..., parameters=...)
\* variant: finished_at is filled at construction, as started_at is
NewRunStamped(a) ==
    [asset_class |-> a.asset_class, risk_factor_id |-> a.risk_factor_id,
     asof |-> a.asof, parameters |-> [lookback_days |-> a.lookback_days],
     started_at |-> "utcnow", finished_at |-> "utcnow"]

NewRun(a) ==
    [asset_class |-> a.asset_class, risk_factor_id |-> a.risk_factor_id, asof |-> a.asof,
     parameters |-> [lookback_days |-> a.lookback_days],
     started_at |-> "utcnow", finished_at |-> NULL]

\* the id the database gives the added DQRun row (rows are never deleted)
NewRunId(runs) == Len(runs) + 1

\* variant: the run row is added before the risk factor is looked up
RunsAfterBeginUnvalidated(runs, a) == Append(runs, NewRun(a))

\* the DQRun table after the first session of run_dq: the run is added only
\* once the risk factor was found
RunsAfterBegin(runs, a) ==
    IF RiskFactorExists(a.risk_factor_id) THEN Append(runs, NewRun(a)) ELSE runs

\* run_dq, first session: validate the risk factor, add and commit the run,
\* capture run_id.  An unknown id raises ValueError before anything is added.
Begin(c, a) ==
    /\ call[c].pc = "idle"
    /\ \A p \in 1..(c - 1) : call[p].pc # "idle"
    /\ dqrun' = RunsAfterBegin(dqrun, a)
    /\ call' = [call EXCEPT ![c] =
                  IF RiskFactorExists(a.risk_factor_id)
                  THEN [@ EXCEPT !.pc = "created", !.args = a, !.run_id = NewRunId(dqrun)]
                  ELSE [@ EXCEPT !.pc = "raised", !.args = a, !.err = "UnknownRiskFactor"]]
    /\ UNCHANGED <<observation, dqexception, probe>>

\* variant: a run without a second source raises like a run without data
CollectBothSources(obs, a, ord) ==
    LET series_by_src == load_series(obs, a.risk_factor_id, ord)
    IN IF Cardinality(DOMAIN series_by_src) < 2
       THEN [raised |-> TRUE, ev |-> NoEvaluation]
       ELSE [raised |-> FALSE, ev |-> Evaluation(obs, a, ord, series_by_src)]

\* run_dq from load_series to the end of the rule evaluation, as a function of
\* what it reads: it raises when no observation is loaded, else it collects
\* the issues
Collect(obs, a, ord) ==
    LET series_by_src == load_series(obs, a.risk_factor_id, ord)
    IN IF DOMAIN series_by_src = {}
       THEN [raised |-> TRUE, ev |-> NoEvaluation]
       ELSE [raised |-> FALSE, ev |-> Evaluation(obs, a, ord, series_by_src)]

\* a series on the dates 1..n that repeats with the given period, with null
\* observations on the dates of nulls
PeriodicSeries(n, period, sign, nulls) ==
    [i \in 1..n |->
        IF i \in nulls THEN NullRow(i)
        ELSE [d |-> i, v |-> 10000 + sign * (i % period)]]

\* the days the rates feeds cover: one more than CorrBreakRule asks for
RateDays == CorrWindow + CorrExtraPoints + 1

\* the rows ingest_series adds for a series without nulls
SeriesRows(rf_id, source_id, s) ==
    [i \in 1..Len(s) |->
        [risk_factor_id |-> rf_id, source_id |-> source_id, obs_date |-> s[i].d,
         value |-> s[i].v]]

\* what the vendors return for the curve: US10Y from fred; US2Y from stooq
\* (moving with US10Y) and from fred (unrelated to it)
US10YFeed == PeriodicSeries(RateDays, 2, 1, {})
US2YFeed == [stooq |-> PeriodicSeries(RateDays, 2, 1, {}),
             fred |-> PeriodicSeries(RateDays, 3, 1, {})]

\* the Observation tables after the ingestion of the curve, of which either
\* US2Y feed may have failed.  The stooq rows are stored first
RatesStores ==
    {SeriesRows("US10Y", 11, US10YFeed)
     \o (IF 12 \in present THEN SeriesRows("US2Y", 12, US2YFeed.stooq) ELSE <<>>)
     \o (IF 13 \in present THEN SeriesRows("US2Y", 13, US2YFeed.fred) ELSE <<>>) :
        present \in SUBSET {12, 13}}

\* run_dq on the curve, the window covering the feeds: US10Y and US2Y as
\* rates, US10Y under another asset class
RatesRunArgs ==
    {[asset_class |-> x[1], risk_factor_id |-> x[2], asof |-> RateDays + 1,
      lookback_days |-> RateDays] :
        x \in {<<"rates", "US10Y">>, <<"rates", "US2Y">>, <<"equities", "US10Y">>}}

\* run_dq on EURUSD with a window that lies after the feeds (days 7..8),
\* before them (days -2..0) or over their last two days (days 4..8)
WindowRunArgs ==
    {[asset_class |-> ac, risk_factor_id |-> "EURUSD", asof |-> w[1], lookback_days |-> w[2]] :
        ac \in {"fx", "rates"}, w \in {<<MaxLen + 3, 1>>, <<0, 2>>, <<MaxLen + 3, 4>>}}

\* ------------------------------------------------ list_risk_factors (bootstrap.py)
\* the asset classes and the risk factor ids, in lexicographic (str) order
AssetClassesSorted == <<"commodities", "equities", "fx", "rates">>
RiskFactorIdsSorted == <<"EURGBP", "EURUSD", "US10Y", "US2Y", "USDGBP">>
AssetClassRank(asset_class) ==
    CHOOSE i \in 1..Len(AssetClassesSorted) : AssetClassesSorted[i] = asset_class

\* select(RiskFactor).order_by(RiskFactor.asset_class, RiskFactor.id)
list_risk_factors ==
    SortSeq([i \in 1..Len(RiskFactorIdsSorted) |->
                [id |-> RiskFactorIdsSorted[i],
                 asset_class |-> riskfactor[RiskFactorIdsSorted[i]]]],
            LAMBDA a, b : AssetClassRank(a.asset_class) < AssetClassRank(b.asset_class))

\* the Observation tables run_dq_for_all may find: the legs of the triangle
\* stored (but perhaps EURUSD from twelvedata), the ingestion of US10Y and of
\* US2Y (from fred) done or failed
BatchStores ==
    {LegRows((1..Len(FxLegs)) \ (present \cap {1}), 1)
     \o (IF 11 \in present THEN FeedRows("US10Y", 11, Flat(10000)) ELSE <<>>)
     \o (IF 13 \in present THEN FeedRows("US2Y", 13, Zigzag(10000)) ELSE <<>>) :
        present \in SUBSET {1, 11, 13}}

\* run_dq(asset_class=rf.asset_class, risk_factor_id=rf.id, asof=asof,
\* lookback_days=lookback_days) for the risk factors of the table
BatchRunArgs ==
    {[asset_class |-> riskfactor[id], risk_factor_id |-> id, asof |-> MaxLen + 3,
      lookback_days |-> MaxLen + 1] : id \in DOMAIN riskfactor}

\* the runs over the other stores and windows: <<store, arguments>>
WindowCases ==
    (RatesStores \X RatesRunArgs) \cup (FxStores \X WindowRunArgs)
    \cup (BatchStores \X BatchRunArgs)

\* Collect, tabulated over them
WindowCollected ==
    {<<oa[1], oa[2], ord, Collect(oa[1], oa[2], ord)>> : oa \in WindowCases, ord \in RowOrders}

\* Collect, tabulated over the stores, the arguments and the row orders
Collected ==
    {<<obs, a, ord, Collect(obs, a, ord)>> :
        obs \in Stores, a \in RunArgs, ord \in RowOrders}

\* the same over the stores that hold the legs of the triangle
FxCollected ==
    {<<obs, a, ord, Collect(obs, a, ord)>> :
        obs \in FxStores, a \in RunArgs, ord \in RowOrders}

CollectedAt(obs, a, ord) ==
    (CHOOSE r \in (IF a \in RunArgs /\ obs \in Stores THEN Collected
                   ELSE IF a \in RunArgs /\ obs \in FxStores THEN FxCollected
                   ELSE WindowCollected) :
        r[1] = obs /\ r[2] = a /\ r[3] = ord)[4]

\* the call once the evaluation has raised or has collected its issues
AfterCollect(cl, out) ==
    IF out.raised
    THEN [cl EXCEPT !.pc = "raised", !.err = "NoObservations"]
    ELSE [cl EXCEPT !.pc = "evaluated", !.ev = out.ev]

\* variant: a risk factor without observations is evaluated as an empty run
\* instead of raising
EvaluateEmptyRun(c, ord) ==
    /\ call[c].pc = "created"
    /\ call' = [call EXCEPT ![c] =
                  [@ EXCEPT !.pc = "evaluated",
                            !.ev = CollectedAt(observation, call[c].args, ord).ev]]
    /\ UNCHANGED <<observation, dqrun, dqexception, probe>>

\* run_dq from load_series to the end of the rule evaluation.  No observation
\* for the risk factor raises ValueError; the run row stays as created.
Evaluate(c, ord) ==
    /\ call[c].pc = "created"
    /\ call' = [call EXCEPT ![c] =
                  AfterCollect(@, CollectedAt(observation, call[c].args, ord))]
    /\ UNCHANGED <<observation, dqrun, dqexception, probe>>

\* DQException(dq_run_id=run_id, ..., status="open", ...) for one Issue
ExceptionRow(run_id, risk_factor_id, iss) ==
    [dq_run_id |-> run_id, risk_factor_id |-> risk_factor_id, rule |-> iss.rule,
     obs_date |-> iss.obs_date, severity |-> iss.severity, status |-> "open",
     suggested_action |-> iss.suggested_action, details |-> iss.details]

\* variant: the loop over the issues misses the last one
ExceptionRowsButLast(run_id, risk_factor_id, issues) ==
    [i \in 1..(Len(issues) - 1) |-> ExceptionRow(run_id, risk_factor_id, issues[i])]

\* the rows the final session adds: one per collected Issue, in order
ExceptionRows(run_id, risk_factor_id, issues) ==
    [i \in 1..Len(issues) |-> ExceptionRow(run_id, risk_factor_id, issues[i])]

\* variant: the exceptions are committed first, finished_at by a later commit
FinishRunLater(runs, run_id) == runs

\* run2 = s.get(DQRun, run_id); run2.finished_at = utcnow()
FinishRun(runs, run_id) == [runs EXCEPT ![run_id].finished_at = "utcnow"]

\* variant: the final session reads the id of the newest run instead of the
\* run_id it captured in the first session
PersistNewestRun(c) ==
    /\ call[c].pc = "evaluated"
    /\ dqexception' = dqexception
                      \o ExceptionRows(Len(dqrun), call[c].args.risk_factor_id,
                                       call[c].ev.issues)
    /\ dqrun' = FinishRun(dqrun, Len(dqrun))
    /\ call' = [call EXCEPT ![c].pc = "done"]
    /\ UNCHANGED <<observation, probe>>

\* run_dq, final session: add every exception, set finished_at, one commit
Persist(c) ==
    /\ call[c].pc = "evaluated"
    /\ dqexception' = dqexception
                      \o ExceptionRows(call[c].run_id, call[c].args.risk_factor_id,
                                       call[c].ev.issues)
    /\ dqrun' = FinishRun(dqrun, call[c].run_id)
    /\ call' = [call EXCEPT ![c].pc = "done"]
    /\ UNCHANGED <<observation, probe>>

\* variant: a failed step is tried again from the start of the evaluation
StoreErrorRetry(c) ==
    /\ call[c].pc \in {"created", "evaluated"}
    /\ call' = [call EXCEPT ![c] = [@ EXCEPT !.pc = IF @ = "evaluated" THEN "created"
                                                    ELSE "raised",
                                             !.err = IF call[c].pc = "evaluated" THEN None
                                                     ELSE "StoreError",
                                             !.ev = NoEvaluation]]
    /\ UNCHANGED <<observation, dqrun, dqexception, probe>>

\* the database raises inside load_series or inside the final session (the
\* session is left without commit): the exception propagates out of run_dq,
\* which has no handler, and the locals of the call are gone
StoreError(c) ==
    /\ call[c].pc \in {"created", "evaluated"}
    /\ call' = [call EXCEPT ![c] = [@ EXCEPT !.pc = "raised", !.err = "StoreError",
                                             !.ev = NoEvaluation]]
    /\ UNCHANGED <<observation, dqrun, dqexception, probe>>

Next ==
    \E c \in Calls :
        \/ \E a \in RunArgs : Begin(c, a)
        \/ \E ord \in RowOrders : Evaluate(c, ord)
        \/ Persist(c)
        \/ StoreError(c)

Spec == Init /\ [][Next]_vars

\* one run_dq call runs synchronously to its end: a call that has started
\* takes its next step
Step(c) ==
    \/ \E ord \in RowOrders : Evaluate(c, ord)
    \/ Persist(c)
    \/ StoreError(c)

FairSpec == Spec /\ \A c \in Calls : WF_vars(Step(c))

-----------------------------------------------------------------------------
\* Properties of run_dq

\* the DQException rows of one run, in table order
RowsOfRun(rows, run_id) == SelectSeq(rows, LAMBDA r : r.dq_run_id = run_id)

\* the risk factor has no Observation row at all
NoObservationFor(rf_id) ==
    \A i \in 1..Len(observation) : observation[i].risk_factor_id # rf_id

Over(c) == call[c].pc \in {"done", "raised"}

\* C1: a run_dq call whose risk_factor_id is not in RiskFactor fails with an
\* error, and the DQRun and DQException tables are the same after the call as
\* before it.
C1_UnknownRiskFactor ==
    [][\A c \in Calls :
          (/\ call[c].pc = "idle"
           /\ call'[c].pc # "idle"
           /\ call'[c].args.risk_factor_id \notin DOMAIN riskfactor)
          => /\ call'[c].pc = "raised"
             /\ call'[c].err = "UnknownRiskFactor"
             /\ dqrun' = dqrun
             /\ dqexception' = dqexception]_vars

\* a call with the unregistered id has failed while another call has created
\* a run
C1_Witness ==
    \E c \in Calls :
        /\ call[c].pc = "raised"
        /\ call[c].args.risk_factor_id = "NOPE"
        /\ call[c].err = "UnknownRiskFactor"
        /\ Len(dqrun) = 1

\* C2: a run_dq call for a registered risk factor without any observation
\* fails with an error, and afterwards exactly one DQRun row belongs to the
\* call, with finished_at unset.
C2_NoObservations ==
    /\ \A c \in Calls :
          (/\ Over(c)
           /\ call[c].args.risk_factor_id \in DOMAIN riskfactor
           /\ NoObservationFor(call[c].args.risk_factor_id))
          => /\ call[c].pc = "raised"
             /\ call[c].err \in {"NoObservations", "StoreError"}
             /\ call[c].run_id \in 1..Len(dqrun)
             /\ dqrun[call[c].run_id].risk_factor_id = call[c].args.risk_factor_id
             /\ dqrun[call[c].run_id].finished_at = NULL
             /\ \A d \in Calls \ {c} : call[d].run_id # call[c].run_id
    /\ Len(dqrun) = Cardinality({c \in Calls : call[c].run_id # 0})

\* a call for the risk factor without observations has raised NoObservations
\* and its run row is there
C2_Witness ==
    \E c \in Calls :
        /\ call[c].pc = "raised"
        /\ call[c].err = "NoObservations"
        /\ NoObservationFor(call[c].args.risk_factor_id)
        /\ call[c].run_id \in 1..Len(dqrun)

\* C3: finished_at of a run is set only when every step of its call has
\* completed; once a step has raised, the error stays with the call, the run
\* is not tried again and its finished_at stays unset forever.
C3_FinishedOnlyOnSuccess ==
    /\ [](\A r \in 1..Len(dqrun) :
             dqrun[r].finished_at # NULL
             => \E c \in Calls : /\ call[c].run_id = r
                                 /\ call[c].pc = "done"
                                 /\ call[c].err = None)
    /\ [][\A c \in Calls :
             call[c].pc = "raised"
             => /\ call[c].err # None
                /\ call'[c] = call[c]
                /\ Len(dqrun') >= Len(dqrun)
                /\ call[c].run_id # 0 =>
                      /\ dqrun[call[c].run_id].finished_at = NULL
                      /\ dqrun'[call[c].run_id].finished_at = NULL]_vars

\* one call has raised after its run was created and the other call has
\* since finished its own run
C3_Witness ==
    \E c, d \in Calls :
        /\ call[c].pc = "raised"
        /\ call[c].run_id # 0
        /\ dqrun[call[c].run_id].finished_at = NULL
        /\ call[d].pc = "done"
        /\ call[d].run_id > call[c].run_id
        /\ dqrun[call[d].run_id].finished_at # NULL

\* C4: when run_dq has returned run_id, the DQException rows with that
\* dq_run_id match the collected Issues one to one (same rule, obs_date,
\* severity, suggested_action, details), every row has status "open" and the
\* risk_factor_id of the run; no Issue is dropped or duplicated.
C4_ExceptionsMatchIssues ==
    \A c \in Calls :
        call[c].pc = "done"
        => LET rows == RowsOfRun(dqexception, call[c].run_id)
               issues == call[c].ev.issues
           IN /\ Len(rows) = Len(issues)
              /\ \A i \in 1..Len(rows) :
                    /\ i <= Len(issues)
                    /\ rows[i].rule = issues[i].rule
                    /\ rows[i].obs_date = issues[i].obs_date
                    /\ rows[i].severity = issues[i].severity
                    /\ rows[i].suggested_action = issues[i].suggested_action
                    /\ rows[i].details = issues[i].details
                    /\ rows[i].status = "open"
                    /\ rows[i].risk_factor_id = dqrun[call[c].run_id].risk_factor_id

\* a call has returned after collecting issues of at least three rules
C4_Witness ==
    \E c \in Calls :
        /\ call[c].pc = "done"
        /\ Cardinality({call[c].ev.issues[i].rule : i \in 1..Len(call[c].ev.issues)}) >= 3
        /\ Len(RowsOfRun(dqexception, call[c].run_id)) >= 3

\* the lifecycle state of the run of a call: created once the run row is
\* committed, evaluating from the rule evaluation to the final session,
\* finished once finished_at is set, aborted once a step has raised
RunState(c) ==
    CASE call[c].pc = "idle" -> "none"
      [] call[c].pc = "created" -> "created"
      [] call[c].pc = "evaluated" -> "evaluating"
      [] call[c].pc = "done" -> "finished"
      [] call[c].pc = "raised" -> IF call[c].run_id = 0 THEN "none" ELSE "aborted"

\* the moves of a run: the evaluation is entered from created only, it ends
\* in finished or, when a step of it raises, in aborted
RunMoves ==
    {<<"none", "created">>, <<"created", "evaluating">>, <<"created", "aborted">>,
     <<"evaluating", "finished">>, <<"evaluating", "aborted">>}

\* C5: every run goes created -> evaluating -> finished or aborted and takes
\* no other transition; a created run eventually is finished or aborted,
\* exactly one of the two, and never leaves that state.
C5_Lifecycle ==
    /\ [][\A c \in Calls :
             RunState(c)' # RunState(c) => <<RunState(c), RunState(c)'>> \in RunMoves]_vars
    /\ [](\A c \in Calls :
             /\ RunState(c) = "finished" <=> (call[c].run_id # 0 /\
                                              dqrun[call[c].run_id].finished_at # NULL)
             /\ RunState(c) = "aborted" => dqrun[call[c].run_id].finished_at = NULL)
    /\ \A c \in Calls :
          (RunState(c) = "created") ~> [](RunState(c) \in {"finished", "aborted"})
    /\ [][\A c \in Calls :
             RunState(c) \in {"finished", "aborted"}
             => /\ RunState(c)' = RunState(c)
                /\ dqrun'[call[c].run_id] = dqrun[call[c].run_id]
                /\ RowsOfRun(dqexception', call[c].run_id)
                       = RowsOfRun(dqexception, call[c].run_id)]_vars

\* one run is finished and the other one aborted during its evaluation
C5_Witness ==
    \E c, d \in Calls :
        /\ RunState(c) = "finished"
        /\ RunState(d) = "aborted"
        /\ call[d].err = "StoreError"


\* what the caller can compare of the exceptions of one run
ExceptionKeys(run_id) ==
    LET rows == RowsOfRun(dqexception, run_id)
    IN {<<rows[i].rule, rows[i].obs_date, rows[i].severity, rows[i].suggested_action>> :
           i \in 1..Len(rows)}

\* C6: two run_dq calls with the same arguments over the same stored
\* observations produce the same set of DQException records (rule, obs_date,
\* severity, suggested_action), whatever the order in which the store returns
\* the rows and whatever ran before.
C6_Deterministic ==
    \A c, d \in Calls :
        (/\ call[c].pc = "done"
         /\ call[d].pc = "done"
         /\ call[c].args = call[d].args)
        => ExceptionKeys(call[c].run_id) = ExceptionKeys(call[d].run_id)

\* C7: concurrent run_dq calls get distinct run ids, every DQException row
\* carries the id of the run that produced it, and the rows and finished_at
\* of each run are those the same call produces when it runs alone.
C7_ConcurrentRuns ==
    /\ \A c, d \in Calls :
          (c # d /\ call[c].run_id # 0) => call[c].run_id # call[d].run_id
    /\ \A i \in 1..Len(dqexception) :
          \E c \in Calls : /\ call[c].pc = "done"
                           /\ call[c].run_id = dqexception[i].dq_run_id
    /\ \A c \in Calls :
          call[c].run_id # 0
          => LET a == call[c].args
                 id == call[c].run_id
             IN IF call[c].pc = "done"
                THEN \E ord \in RowOrders :
                        LET alone == Collect(observation, a, ord)
                        IN /\ ~alone.raised
                           /\ RowsOfRun(dqexception, id)
                                 = ExceptionRows(id, a.risk_factor_id, alone.ev.issues)
                           /\ dqrun[id] = [NewRun(a) EXCEPT !.finished_at = "utcnow"]
                ELSE /\ RowsOfRun(dqexception, id) = <<>>
                     /\ dqrun[id] = NewRun(a)

\* two calls overlapped: the run created second was persisted first, and
\* both have persisted exceptions
C7_Witness ==
    \E c, d \in Calls :
        /\ call[c].pc = "done"
        /\ call[d].pc = "done"
        /\ call[c].run_id < call[d].run_id
        /\ Len(RowsOfRun(dqexception, call[c].run_id)) > 0
        /\ Len(RowsOfRun(dqexception, call[d].run_id)) > 0
        /\ dqexception[1].dq_run_id = call[d].run_id

\* --------------------------------------------------- _pick_sources on its own
\* every asset class with every non-empty set of available source names
PickInputs == [asset_class : AssetClasses, keys : (SUBSET SourceNames) \ {{}}]

InitPick ==
    /\ observation = <<>>
    /\ dqrun = <<>>
    /\ dqexception = <<>>
    /\ call = [c \in Calls |-> IdleCall]
    /\ probe \in {[fn |-> "_pick_sources", asset_class |-> i.asset_class, keys |-> i.keys,
                   returned |-> FALSE, out |-> <<None, None>>] : i \in PickInputs}

\* primary, secondary = _pick_sources(asset_class, series_by_src)
ApplyPick ==
    /\ probe.fn = "_pick_sources"
    /\ ~probe.returned
    /\ probe' = [probe EXCEPT !.returned = TRUE,
                              !.out = _pick_sources(probe.asset_class, probe.keys)]
    /\ UNCHANGED <<observation, dqrun, dqexception, call>>

NextPick == ApplyPick

SpecPick == InitPick /\ [][NextPick]_vars

\* name is the first entry of list that is in names
IsFirstAvailable(name, list, names) ==
    \E i \in 1..Len(list) :
        /\ list[i] = name
        /\ name \in names
        /\ \A j \in 1..(i - 1) : list[j] \notin names

\* C8: for every asset class and every non-empty set of available names,
\* _pick_sources returns as primary the first available name of the primary
\* preference list, or the lexicographically smallest available name when no
\* preferred one is available, and as secondary the first name of the secondary
\* list that is available and is not primary, or none; so primary is
\* available and secondary, when present, is available and differs from it.
C8_PickSources ==
    (probe.fn = "_pick_sources" /\ probe.returned)
    => LET primary == probe.out[1]
           secondary == probe.out[2]
           keys == probe.keys
           plist == prefs_primary[probe.asset_class]
           slist == prefs_secondary[probe.asset_class]
       IN /\ \/ IsFirstAvailable(primary, plist, keys)
             \/ /\ \A i \in 1..Len(plist) : plist[i] \notin keys
                /\ primary \in keys
                /\ \A k \in keys : LexRank(primary) <= LexRank(k)
          /\ \/ IsFirstAvailable(secondary, slist, keys \ {primary})
             \/ /\ secondary = None
                /\ \A i \in 1..Len(slist) : slist[i] \notin keys \ {primary}
          /\ primary \in keys
          /\ secondary # None => (secondary \in keys /\ secondary # primary)

\* _pick_sources has returned for rates with stooq and twelvedata available
\* and no fred: stooq heads both lists, so the secondary is the next name
C8_Witness ==
    /\ probe.fn = "_pick_sources"
    /\ probe.returned
    /\ probe.asset_class = "rates"
    /\ probe.keys = {"stooq", "twelvedata", "yfinance"}
    /\ probe.out = <<"stooq", "twelvedata">>

ReconcileRules == {"reconcile.abs_pct", "reconcile.returns_diff"}

\* the Reconciliation issues among the collected issues
ReconcileIssues(issues) == SelectSeq(issues, LAMBDA i : i.rule \in ReconcileRules)

\* the rows of s dated within [asof - lookback_days, asof]
InWindow(s, a) ==
    SelectSeq(s, LAMBDA r : a.asof - a.lookback_days <= r.d /\ r.d <= a.asof)

\* C9: a missing secondary source is not an error: the run skips the
\* Reconciliation rule and can still finish.  Reconciliation is evaluated
\* exactly when a secondary source was resolved, on the primary and the
\* secondary series both cut to the evaluation window.
C9_MissingSecondary ==
    /\ \A c \in Calls :
          (call[c].pc = "raised" /\ call[c].err # "StoreError")
          => \/ call[c].args.risk_factor_id \notin DOMAIN riskfactor
             \/ NoObservationFor(call[c].args.risk_factor_id)
    /\ \A c \in Calls :
          call[c].pc \in {"evaluated", "done"}
          => LET ev == call[c].ev
                 a == call[c].args
             IN /\ \E ord \in RowOrders :
                      LET sbs == load_series(observation, a.risk_factor_id, ord)
                          keys == DOMAIN sbs
                          primary == PickPrimary(a.asset_class, keys)
                          secondary == PickSecondary(a.asset_class, keys, primary)
                      IN /\ ev.primary_src = primary
                         /\ ev.other_src = secondary
                         /\ (ev.recon_call # Nothing) <=> (secondary # None)
                         /\ secondary # None
                            => ev.recon_call
                                 = Some([series |-> InWindow(sbs[primary], a),
                                         other_series |-> InWindow(sbs[secondary], a)])
                /\ ReconcileIssues(ev.issues)
                      = IF ev.recon_call = Nothing THEN <<>>
                        ELSE ReconStep(ev.recon_call[1].series,
                                       ev.recon_call[1].other_series)
                /\ call[c].pc = "evaluated" => ENABLED Persist(c)

\* a run over a store with one source name only has finished: it has
\* persisted issues, none of them of the Reconciliation rule
C9_Witness ==
    \E c \in Calls :
        /\ call[c].pc = "done"
        /\ call[c].ev.other_src = None
        /\ call[c].ev.recon_call = Nothing
        /\ dqrun[call[c].run_id].finished_at # NULL
        /\ Len(RowsOfRun(dqexception, call[c].run_id)) > 0

\* C10: when Reconciliation is evaluated, it is evaluated with the calibration
\* of the asset class of the run: fx on returns with tolerance 0.004 over 3
\* consecutive breaches, equities on returns with 0.006 over 2, commodities
\* on returns with the default return tolerance, rates on levels.
C10_AssetClassCalibration ==
    \A c \in Calls :
        (call[c].pc \in {"evaluated", "done"} /\ call[c].ev.recon_call # Nothing)
        => ReconcileIssues(call[c].ev.issues)
              = ReconcileRun(call[c].ev.recon_call[1].series,
                             Some(call[c].ev.recon_call[1].other_series),
                             call[c].args.asset_class, "")


-----------------------------------------------------------------------------
\* The rules on their own: one rule object, applied to one input

\* no run_dq call is under way
NoRun ==
    /\ observation = <<>>
    /\ dqrun = <<>>
    /\ dqexception = <<>>
    /\ call = [c \in Calls |-> IdleCall]

\* the series of cells: on date i a row with a value, a null row, or no row
SeriesOfCells(cells) ==
    LET rows == [i \in 1..Len(cells) |->
                   IF cells[i].k = "absent" THEN <<>>
                   ELSE IF cells[i].k = "null" THEN <<NullRow(i)>>
                   ELSE <<[d |-> i, v |-> cells[i].v]>>]
        RECURSIVE cat(_)
        cat(i) == IF i > Len(rows) THEN <<>> ELSE rows[i] \o cat(i + 1)
    IN cat(1)

\* every series over the dates 1..n with values of vals, null and absent rows
AllSeries(n, vals) ==
    {SeriesOfCells(c) :
        c \in [1..n -> {[k |-> "absent", v |-> 0], [k |-> "null", v |-> 0]}
                       \cup {[k |-> "value", v |-> v] : v \in vals}]}

\* every series with a value of vals or a null observation on each of the
\* dates 1..n
ValueSeries(n, vals) ==
    {SeriesOfCells(c) :
        c \in [1..n -> {[k |-> "null", v |-> 0]} \cup {[k |-> "value", v |-> v] : v \in vals}]}

\* the dates of s that carry a non-null observation
ObservedDates(s) == {s[i].d : i \in {k \in 1..Len(s) : "v" \in DOMAIN s[k]}}

\* ------------------------------------------------------ MissingBdaysRule alone
MissingProbes ==
    {[fn |-> "MissingBdaysRule.run",
      args |-> [series |-> ser, expected |-> exp],
      returned |-> 0, out |-> <<>>, again |-> <<>>] :
        ser \in AllSeries(MaxDays, {10000}),
        exp \in {Nothing} \cup {Some(E) : E \in SUBSET (1..(MaxDays + 1))}}

InitMissing == NoRun /\ probe \in MissingProbes

\* issues = MISSING.run(series, expected_dates=expected), a first and a
\* second time on the same rule object
ApplyMissing ==
    /\ probe.fn = "MissingBdaysRule.run"
    /\ probe.returned < 2
    /\ probe' = IF probe.returned = 0
                THEN [probe EXCEPT !.returned = 1,
                        !.out = MissingBdaysRun(probe.args.series, probe.args.expected)]
                ELSE [probe EXCEPT !.returned = 2,
                        !.again = MissingBdaysRun(probe.args.series, probe.args.expected)]
    /\ UNCHANGED <<observation, dqrun, dqexception, call>>

SpecMissing == InitMissing /\ [][ApplyMissing]_vars

\* the issues are one per date of want, each with severity 55 and action
\* "interpolate"
IsMissingIssues(out, want) ==
    /\ {out[i].obs_date : i \in 1..Len(out)} = want
    /\ Len(out) = Cardinality(want)
    /\ \A i \in 1..Len(out) :
          /\ out[i].rule = "gaps.missing_bdays"
          /\ out[i].severity = 55
          /\ out[i].suggested_action = "interpolate"

\* C11 as stated: for every series and every supplied expected-date set the
\* issues of MissingBdaysRule.run are exactly one per date of (expected minus
\* the dates with a non-null observation), with severity 55 and action
\* "interpolate", and a second run returns the same issues.
C11_MissingIsExpectedMinusObserved ==
    (probe.fn = "MissingBdaysRule.run" /\ probe.returned >= 1
     /\ probe.args.expected # Nothing)
    => /\ IsMissingIssues(probe.out,
                          probe.args.expected[1] \ ObservedDates(probe.args.series))
       /\ probe.returned = 2 => probe.again = probe.out

\* C11, amended: the above holds for every series with at least one non-null
\* observation; a series without any returns no issue, whatever is expected.
C11_MissingUnlessEmpty ==
    (probe.fn = "MissingBdaysRule.run" /\ probe.returned >= 1
     /\ probe.args.expected # Nothing)
    => /\ IF ObservedDates(probe.args.series) = {}
          THEN probe.out = <<>>
          ELSE IsMissingIssues(probe.out,
                               probe.args.expected[1] \ ObservedDates(probe.args.series))
       /\ probe.returned = 2 => probe.again = probe.out

\* the rule has run twice on a series with a value, a null and a gap inside
\* the expected dates, and has reported the null date and the gap
C11_Witness ==
    /\ probe.fn = "MissingBdaysRule.run"
    /\ probe.returned = 2
    /\ probe.args.expected = Some({1, 2, 3})
    /\ ObservedDates(probe.args.series) = {1}
    /\ 2 \in Dates(probe.args.series)
    /\ Len(probe.out) = 2

\* ------------------------------------------------------------- StaleRule alone
\* the values of the series given to StaleRule, in ticks
StaleValues == {0, 1, 3}

\* a series of two values followed by n equal values, on the dates 1..n+2
RunSeries(a, b, c, n) ==
    [i \in 1..(n + 2) |-> [d |-> i, v |-> IF i = 1 THEN a ELSE IF i = 2 THEN b ELSE c]]

\* StaleRule(min_streak, atol).run(series): any short series with any
\* parameters, and STALE = StaleRule() on two changing values followed by a
\* run of equal values
StaleProbes ==
    {[fn |-> "StaleRule.run",
      args |-> [series |-> ser, min_streak |-> ms, atol |-> at],
      returned |-> 0, out |-> <<>>] :
        ser \in ValueSeries(MaxLen, StaleValues), ms \in 1..3, at \in {0, 1}}
    \cup
    {[fn |-> "StaleRule.run",
      args |-> [series |-> RunSeries(x[1], x[2], x[3], n),
                min_streak |-> StaleMinStreak, atol |-> StaleAtol],
      returned |-> 0, out |-> <<>>] :
        x \in {y \in StaleValues \X StaleValues \X StaleValues : y[1] # y[2]},
        n \in 1..MaxRun}

InitStale == NoRun /\ probe \in StaleProbes

\* issues = STALE.run(series)
ApplyStale ==
    /\ probe.fn = "StaleRule.run"
    /\ probe.returned = 0
    /\ probe' = [probe EXCEPT !.returned = 1,
                   !.out = StaleRun(probe.args.series, probe.args.min_streak,
                                    probe.args.atol)]
    /\ UNCHANGED <<observation, dqrun, dqexception, call>>

SpecStale == InitStale /\ [][ApplyStale]_vars

\* the probe is two changing values followed by n equal values, the rule has
\* its default parameters and has returned
StaleRunProbe(n) ==
    /\ probe.fn = "StaleRule.run"
    /\ probe.returned = 1
    /\ probe.args.min_streak = StaleMinStreak
    /\ probe.args.atol = StaleAtol
    /\ Len(probe.args.series) = n + 2
    /\ \E a, b, c \in StaleValues :
          a # b /\ probe.args.series = RunSeries(a, b, c, n)

\* the issues out are exactly one per date of ds, in date order, with
\* non-decreasing severity
StaleIssuesAt(out, ds) ==
    /\ Len(out) = Len(ds)
    /\ \A i \in 1..Len(out) : out[i].rule = "gaps.stale" /\ out[i].obs_date = ds[i]
    /\ \A i \in 1..(Len(out) - 1) : out[i].severity <= out[i + 1].severity

\* C12 as stated: StaleRule with its default parameters, on 2 changing values
\* followed by 5 identical values, returns exactly three issues, at the 3rd,
\* 4th and 5th of the identical values (dates 5, 6, 7), with non-decreasing
\* severity.
C12_ThreeIssuesOnFiveIdentical ==
    StaleRunProbe(5) => StaleIssuesAt(probe.out, <<5, 6, 7>>)

\* C12, amended: the three issues at the 3rd, 4th and 5th identical values are
\* returned when the identical values repeat the second changing value (six
\* equal values in a row); when they differ from it the rule returns exactly
\* two issues, at the 4th and 5th identical values (streak 3 and 4), in both
\* cases with non-decreasing severity.
C12_IssuesOnFiveIdentical ==
    StaleRunProbe(5)
    => IF probe.args.series[3].v = probe.args.series[2].v
       THEN /\ StaleIssuesAt(probe.out, <<5, 6, 7>>)
            /\ \A i \in 1..3 : probe.out[i].details.streak = i + 2
       ELSE /\ StaleIssuesAt(probe.out, <<6, 7>>)
            /\ \A i \in 1..2 : probe.out[i].details.streak = i + 2

\* the rule has returned two issues, of severity 66 and 78, on two changing
\* values followed by five values equal to each other and to neither
C12_Witness ==
    /\ StaleRunProbe(5)
    /\ probe.args.series[3].v # probe.args.series[2].v
    /\ Len(probe.out) = 2
    /\ probe.out[1].severity = 66
    /\ probe.out[2].severity = 78

\* position i of s is an unchanged step: |s[i] - s[i-1]| <= atol
UnchangedStep(s, i, atol) == i > 1 /\ Abs(s[i].v - s[i - 1].v) <= atol

\* k: the number of consecutive unchanged steps ending at position i of s
UnchangedRun(s, i, atol) ==
    Cardinality({j \in 1..i : \A m \in j..i : UnchangedStep(s, m, atol)})

\* C19: StaleRule.run emits an issue on date d exactly when the number k of
\* consecutive unchanged steps ending at d is at least min_streak; the issue
\* carries streak = k and severity min(100, 30 + 12 k), the severities are
\* non-decreasing inside one streak, and a series with fewer than
\* min_streak + 1 non-null points yields no issue.
C19_StaleIffStreak ==
    (probe.fn = "StaleRule.run" /\ probe.returned = 1)
    => LET s == SortByDate(DropNa(probe.args.series))
           ms == probe.args.min_streak
           at == probe.args.atol
           out == probe.out
           flagged == {i \in 1..Len(s) : UnchangedRun(s, i, at) >= ms}
       IN /\ {out[n].obs_date : n \in 1..Len(out)} = {s[i].d : i \in flagged}
          /\ Len(out) = Cardinality(flagged)
          /\ \A n \in 1..Len(out) : \A i \in flagged :
                out[n].obs_date = s[i].d
                => /\ out[n].details.streak = UnchangedRun(s, i, at)
                   /\ out[n].severity = Min(100, 30 + 12 * UnchangedRun(s, i, at))
          /\ \A n \in 1..(Len(out) - 1) :
                out[n + 1].details.streak = out[n].details.streak + 1
                => out[n].severity <= out[n + 1].severity
          /\ Cardinality(ObservedDates(probe.args.series)) < ms + 1 => out = <<>>

\* the rule has returned an issue with streak 7 and the capped severity 100,
\* after issues of a lower severity in the same streak
C19_Witness ==
    /\ probe.fn = "StaleRule.run"
    /\ probe.returned = 1
    /\ \E n \in 1..Len(probe.out) :
          probe.out[n].details.streak = 7 /\ probe.out[n].severity = 100
    /\ \E n \in 1..Len(probe.out) :
          probe.out[n].details.streak = 3 /\ probe.out[n].severity = 66


\* ------------------------------------------------------------ HampelRule alone
\* a series of n dates wobbling around 1.0000, with a jump of size spike on
\* date p and null observations on the dates of nulls
SpikeSeries(n, p, spike, nulls) ==
    [i \in 1..n |->
        IF i \in nulls THEN NullRow(i)
        ELSE [d |-> i, v |-> 10000 + 10 * (i % 3) + (IF i = p THEN spike ELSE 0)]]

\* SPIKE = HampelRule() and a more sensitive HampelRule(n_sigmas=3) on series
\* of lengths around the cold-start length
HampelProbes ==
    {[fn |-> "HampelRule.run",
      args |-> [series |-> SpikeSeries(n, p, sp, nu),
                window |-> HampelWindow, n_sigmas |-> ns],
      returned |-> 0, out |-> <<>>] :
        n \in (HampelMinLen - 4)..MaxSpikeLen, p \in {3, 12, 20}, sp \in {0, 5000},
        nu \in SUBSET {1, 15, 26}, ns \in {3, HampelNSigmas}}

InitHampel == NoRun /\ probe \in HampelProbes

\* issues = SPIKE.run(series)
ApplyHampel ==
    /\ probe.fn = "HampelRule.run"
    /\ probe.returned = 0
    /\ probe' = [probe EXCEPT !.returned = 1,
                   !.out = HampelRun(probe.args.series, probe.args.window,
                                     probe.args.n_sigmas)]
    /\ UNCHANGED <<observation, dqrun, dqexception, call>>

SpecHampel == InitHampel /\ [][ApplyHampel]_vars

\* C13: HampelRule.run returns no issues for every series with fewer than 30
\* non-null points.
C13_ColdStart ==
    (probe.fn = "HampelRule.run" /\ probe.returned = 1
     /\ Cardinality(ObservedDates(probe.args.series)) < 30)
    => probe.out = <<>>

\* the rule has returned nothing on a series of 31 dates with a jump, of
\* which only 29 are non-null
C13_Witness ==
    /\ probe.fn = "HampelRule.run"
    /\ probe.returned = 1
    /\ Len(probe.args.series) = 31
    /\ Cardinality(ObservedDates(probe.args.series)) = 29
    /\ \E i \in 1..Len(probe.args.series) :
          "v" \in DOMAIN probe.args.series[i] /\ probe.args.series[i].v > 14000
    /\ probe.out = <<>>

\* --------------------------------------------------------- ReconcileRule alone
\* the values of the series given twice to ReconcileRule, in ticks: negative,
\* zero and positive levels
ReconcileValues == {-1000, 0, 1000, 1010}

\* ReconcileRule(ret_tol=..., consecutive=..., use_log_returns=...).run(series,
\* other_series=series, asset_class=..., mode=...): the same series on both
\* sides
IdenticalProbes ==
    {[fn |-> "ReconcileRule.run",
      args |-> [self |-> ReconcileRule(AbsTolTicks, PctTolPerMille, rt, n, lg),
                series |-> ser, other |-> Some(ser),
                asset_class |-> cm[1], mode |-> cm[2], bits |-> <<>>],
      returned |-> 0, out |-> <<>>] :
        ser \in ValueSeries(MaxDays, ReconcileValues),
        rt \in {0, RetTolMicro}, n \in {1, ReconConsecutive}, lg \in BOOLEAN,
        cm \in {<<"", "returns">>, <<"fx", "">>, <<"", "">>}}

\* a flat series at 1.0000 on the dates 1..n
FlatSeries(n) == [i \in 1..n |-> [d |-> i, v |-> 10000]]

\* a series that is 0.0100 above FlatSeries on the dates i with bits[i]
LevelPattern(bits) ==
    [i \in 1..Len(bits) |-> [d |-> i, v |-> 10000 + (IF bits[i] THEN 100 ELSE 0)]]

\* a series on the dates 1..Len(bits)+1 that starts at 1.0000 and rises by
\* 0.0100 into every date i+1 with bits[i]: its return differs from that of
\* FlatSeries exactly there
ReturnsPattern(bits) ==
    [i \in 1..(Len(bits) + 1) |->
        [d |-> i,
         v |-> 10000 + 100 * Cardinality({j \in 1..(i - 1) : bits[j]})]]

\* ReconcileRule(consecutive=n).run(flat, other_series=pattern, mode=...): the
\* breach sequence is bits
PatternProbes ==
    {[fn |-> "ReconcileRule.run",
      args |-> [self |-> ReconcileRule(AbsTolTicks, PctTolPerMille, RetTolMicro, n, TRUE),
                series |-> FlatSeries(Len(bits) + (IF md = "returns" THEN 1 ELSE 0)),
                other |-> Some(IF md = "returns" THEN ReturnsPattern(bits)
                               ELSE LevelPattern(bits)),
                asset_class |-> "", mode |-> md, bits |-> bits],
      returned |-> 0, out |-> <<>>] :
        bits \in [1..MaxBits -> BOOLEAN], n \in 1..MaxConsecutive,
        md \in {"returns", "level"}}

ReconcileProbes == IdenticalProbes \cup PatternProbes

InitReconcile == NoRun /\ probe \in ReconcileProbes

\* issues = rule.run(series, other_series=other, asset_class=..., mode=...)
ApplyReconcile ==
    /\ probe.fn = "ReconcileRule.run"
    /\ probe.returned = 0
    /\ probe' = [probe EXCEPT !.returned = 1,
                   !.out = ReconcileWith(probe.args.self, probe.args.series,
                                         probe.args.other, probe.args.asset_class,
                                         probe.args.mode)]
    /\ UNCHANGED <<observation, dqrun, dqexception, call>>

SpecReconcile == InitReconcile /\ [][ApplyReconcile]_vars

\* the mode run() works in
EffectiveMode(args) ==
    IF args.mode # "" THEN args.mode
    ELSE IF args.asset_class \in {"fx", "equities", "commodities"} THEN "returns"
    ELSE "level"

\* C14: ReconcileRule.run in returns mode returns zero issues when the primary
\* and the other series are identical, for every non-negative ret_tol and
\* every consecutive.
C14_IdenticalSeriesReconcile ==
    (probe.fn = "ReconcileRule.run" /\ probe.returned = 1
     /\ EffectiveMode(probe.args) = "returns"
     /\ probe.args.other = Some(probe.args.series)
     /\ probe.args.self.ret_tol >= 0)
    => probe.out = <<>>

\* the rule, with ret_tol = 0 and consecutive = 1, has returned nothing for a
\* series with a null, a zero and two different positive values given as both
\* sides
C14_Witness ==
    /\ probe.fn = "ReconcileRule.run"
    /\ probe.returned = 1
    /\ EffectiveMode(probe.args) = "returns"
    /\ probe.args.other = Some(probe.args.series)
    /\ probe.args.self.ret_tol = 0
    /\ probe.args.self.consecutive = 1
    /\ probe.args.asset_class = ""
    /\ {1000, 1010, 0} \subseteq {probe.args.series[i].v :
                                     i \in {k \in 1..Len(probe.args.series) :
                                             "v" \in DOMAIN probe.args.series[k]}}
    /\ Cardinality(ObservedDates(probe.args.series)) < Len(probe.args.series)
    /\ probe.out = <<>>

\* -------------------------------------------------------- FXTriangleRule alone
\* the leg AB on the dates 1..Len(levels): 1.0000 plus levels[i] ticks.  With
\* BC = AC = 1.0000 the relative error on date i is levels[i] / 10000
LegPattern(levels) ==
    [i \in 1..Len(levels) |-> [d |-> i, v |-> 10000 + levels[i]]]

\* the errors of the patterns, in ticks: none, exactly the default threshold
\* 0.005, and twice the threshold
FxErrorLevels == {0, 10 * FxThresholdPerMille, 20 * FxThresholdPerMille}

\* FXTriangleRule(consecutive=n).run(ab, ab=ab, bc=flat, ac=flat)
FxProbes ==
    {[fn |-> "FXTriangleRule.run",
      args |-> [threshold |-> FxThresholdPerMille, consecutive |-> n,
                rule_suffix |-> None,
                ab |-> Some(LegPattern(levels)),
                bc |-> Some(FlatSeries(Len(levels))),
                ac |-> Some(FlatSeries(Len(levels))),
                levels |-> levels],
      returned |-> 0, out |-> <<>>] :
        levels \in [1..MaxBits -> FxErrorLevels], n \in 1..MaxConsecutive}

InitFxTriangle == NoRun /\ probe \in FxProbes

\* tri_issues = tri.run(eurusd, ab=eurusd, bc=usdgbp, ac=eurgbp)
ApplyFxTriangle ==
    /\ probe.fn = "FXTriangleRule.run"
    /\ probe.returned = 0
    /\ probe' = [probe EXCEPT !.returned = 1,
                   !.out = FXTriangleRun(probe.args.ab, probe.args.bc, probe.args.ac,
                                         probe.args.threshold, probe.args.consecutive,
                                         probe.args.rule_suffix)]
    /\ UNCHANGED <<observation, dqrun, dqexception, call>>

SpecFxTriangle == InitFxTriangle /\ [][ApplyFxTriangle]_vars

\* C15: FXTriangleRule with threshold t and consecutive = 3: when the relative
\* error equals exactly t on 3 or more consecutive aligned dates, the last date
\* of that streak and every date preceded by 2 such dates is flagged, with
\* severity exactly 60.
C15_AtThresholdFlagged ==
    (probe.fn = "FXTriangleRule.run" /\ probe.returned = 1
     /\ probe.args.consecutive = 3)
    => \A i \in 3..Len(probe.args.levels) :
          (\A j \in (i - 2)..i : probe.args.levels[j] = 10 * probe.args.threshold)
          => \E n \in 1..Len(probe.out) :
                probe.out[n].obs_date = i /\ probe.out[n].severity = 60

\* ------------------------------------------- the persistence filter, both rules
InitPersistence == NoRun /\ probe \in PatternProbes \cup FxProbes

NextPersistence == ApplyReconcile \/ ApplyFxTriangle

SpecPersistence == InitPersistence /\ [][NextPersistence]_vars

\* the breach sequence of a returned probe whose dates either breach clearly
\* or not at all, <<>> for any other probe
BreachBits ==
    IF probe.returned # 1 THEN <<>>
    ELSE IF probe.fn = "ReconcileRule.run" THEN probe.args.bits
    ELSE IF probe.fn = "FXTriangleRule.run"
            /\ \A i \in 1..Len(probe.args.levels) :
                  probe.args.levels[i] # 10 * probe.args.threshold
         THEN [i \in 1..Len(probe.args.levels) |-> probe.args.levels[i] > 0]
    ELSE <<>>

\* the date of position i of the breach sequence: returns have no first date
DateOfPosition(i) ==
    IF probe.fn = "ReconcileRule.run" /\ probe.args.mode = "returns" THEN i + 1 ELSE i

\* consecutive of the rule object of the probe
ConsecutiveOfProbe ==
    IF probe.fn = "ReconcileRule.run" THEN probe.args.self.consecutive
    ELSE probe.args.consecutive

\* lo..hi is a streak of bits: a maximal run of breaches
IsStreak(bits, lo, hi) ==
    /\ \A j \in lo..hi : bits[j]
    /\ lo = 1 \/ ~bits[lo - 1]
    /\ hi = Len(bits) \/ ~bits[hi + 1]

InitFx ==
    /\ observation \in FxStores
    /\ dqrun = <<>>
    /\ dqexception = <<>>
    /\ call = [c \in Calls |-> IdleCall]
    /\ probe = NoProbe

SpecFx == InitFx /\ [][Next]_vars

\* the store holds observations of risk factor rf_id from the vendor name
Stored(rf_id, name) ==
    \E i \in 1..Len(observation) :
        /\ observation[i].risk_factor_id = rf_id
        /\ datasource[observation[i].source_id].name = name

\* all three legs of bucket b are stored
BucketStored(b) ==
    Stored("EURUSD", b.ab) /\ Stored("USDGBP", b.bc) /\ Stored("EURGBP", b.ac)

\* the rule names of the FX triangle, with any label or none
FxTriangleRules ==
    {"relations.fx_triangle"}
    \cup {"relations.fx_triangle." \o FxBuckets[i].label : i \in 1..Len(FxBuckets)}

\* the issues of the FX triangle among issues
FxTriangleIssues(issues) == SelectSeq(issues, LAMBDA e : e.rule \in FxTriangleRules)

\* C16: a run with asset class fx evaluates the FX triangle at most once: on
\* the first bucket, in the order twelvedata, stooq, ecb, whose three legs are
\* all available, labelling its issues relations.fx_triangle.<label>, never on
\* a later one; with no such bucket the check is skipped and the run goes on to
\* its end.  Runs of other asset classes never evaluate it.
C16_FirstAvailableBucket ==
    \A c \in Calls :
        call[c].pc \in {"evaluated", "done"}
        => LET ev == call[c].ev
               tri == FxTriangleIssues(ev.issues)
               firsts == {i \in 1..Len(FxBuckets) :
                            /\ BucketStored(FxBuckets[i])
                            /\ \A j \in 1..(i - 1) : ~BucketStored(FxBuckets[j])}
           IN IF call[c].args.asset_class = "fx" /\ firsts # {}
              THEN \E i \in firsts :
                      /\ ev.fx_bucket = FxBuckets[i].label
                      /\ \A n \in 1..Len(tri) :
                            tri[n].rule = "relations.fx_triangle." \o FxBuckets[i].label
                      /\ \A n, m \in 1..Len(tri) :
                            n # m => tri[n].obs_date # tri[m].obs_date
              ELSE ev.fx_bucket = None /\ tri = <<>>

\* an fx run has finished with the issues of the stooq bucket alone, the
\* twelvedata bucket lacking a leg and the ecb bucket being complete
C16_Witness ==
    \E c \in Calls :
        /\ call[c].pc = "done"
        /\ call[c].args.asset_class = "fx"
        /\ ~BucketStored(FxBuckets[1])
        /\ BucketStored(FxBuckets[2])
        /\ BucketStored(FxBuckets[3])
        /\ call[c].ev.fx_bucket = "stooq"
        /\ FxTriangleIssues(call[c].ev.issues) # <<>>
        /\ dqrun[call[c].run_id].finished_at # NULL
        /\ \E i \in 1..Len(dqexception) :
              dqexception[i].rule = "relations.fx_triangle.stooq"

\* an fx run has finished without any FX triangle issue, no bucket being
\* complete
FxSkippedRunFinished ==
    \E c \in Calls :
        /\ call[c].pc = "done"
        /\ call[c].args.asset_class = "fx"
        /\ \A i \in 1..Len(FxBuckets) : ~BucketStored(FxBuckets[i])
        /\ call[c].ev.fx_bucket = None
        /\ dqrun[call[c].run_id].finished_at # NULL

\* --------------------------------------------------------- CorrBreakRule alone
\* CorrBreakRule(window, min_abs_corr).run(series, peer_series=peer): a
\* primary of period 2 against a peer that is the same, the opposite or (period
\* 3) unrelated, of lengths around window + 10, the peer lacking some values
CorrProbes ==
    {[fn |-> "CorrBreakRule.run",
      args |-> [series |-> PeriodicSeries(n, 2, 1, {}),
                peer |-> Some(PeriodicSeries(n, pat[1], pat[2], nu)),
                window |-> w, min_abs_pct |-> m],
      returned |-> 0, out |-> <<>>] :
        w \in {5, CorrWindow},
        n \in (CorrWindow + CorrExtraPoints - CorrSlack)
                ..(CorrWindow + CorrExtraPoints + CorrSlack),
        pat \in {<<2, 1>>, <<2, -1>>, <<3, 1>>},
        nu \in SUBSET {2, 7}, m \in {CorrMinAbsPct, 50}}
    \cup
    {[fn |-> "CorrBreakRule.run",
      args |-> [series |-> PeriodicSeries(n, 2, 1, {}),
                peer |-> Some(PeriodicSeries(n, 3, 1, nu)),
                window |-> 5, min_abs_pct |-> CorrMinAbsPct],
      returned |-> 0, out |-> <<>>] :
        n \in (5 + CorrExtraPoints - CorrSlack)..(5 + CorrExtraPoints + CorrSlack),
        nu \in SUBSET {2, 7}}

InitCorr == NoRun /\ probe \in CorrProbes

\* issues = CorrBreakRule(...).run(primary, peer_series=s2)
ApplyCorr ==
    /\ probe.fn = "CorrBreakRule.run"
    /\ probe.returned = 0
    /\ probe' = [probe EXCEPT !.returned = 1,
                   !.out = CorrBreakRun(probe.args.series, probe.args.peer,
                                        probe.args.window, probe.args.min_abs_pct)]
    /\ UNCHANGED <<observation, dqrun, dqexception, call>>

SpecCorr == InitCorr /\ [][ApplyCorr]_vars

\* the number of dates on which both series of the probe have a value
BothValued ==
    Cardinality(ObservedDates(probe.args.series) \cap ObservedDates(probe.args.peer[1]))

\* C17: CorrBreakRule.run returns no issues whenever the primary and the peer
\* series have fewer than window + 10 dates on which both have a value (70 with
\* the default window 60), whatever the correlation of the values.
C17_TooFewAlignedDates ==
    (probe.fn = "CorrBreakRule.run" /\ probe.returned = 1
     /\ BothValued < probe.args.window + 10)
    => probe.out = <<>>

\* the default rule has returned nothing for two unrelated series of 71 dates
\* of which 69 carry both values
C17_Witness ==
    /\ probe.fn = "CorrBreakRule.run"
    /\ probe.returned = 1
    /\ probe.args.window = 60
    /\ Len(probe.args.series) = 71
    /\ BothValued = 69
    /\ probe.args.peer[1][3].v # probe.args.series[3].v
    /\ probe.out = <<>>

\* ------------------------------------------------- every rule, alone and in run_dq
InitAll ==
    \/ Init
    \/ InitFx
    \/ InitMissing
    \/ InitStale
    \/ InitHampel
    \/ InitReconcile
    \/ InitFxTriangle
    \/ InitCorr

\* run_dq works on an ingested store; the rules alone work on their arguments
RunStep == probe = NoProbe /\ Next

NextAll ==
    \/ RunStep
    \/ ApplyMissing
    \/ ApplyStale
    \/ ApplyHampel
    \/ ApplyReconcile
    \/ ApplyFxTriangle
    \/ ApplyCorr

SpecAll == InitAll /\ [][NextAll]_vars

\* the enum of suggested_action
SuggestedActions == {"review", "winsorize", "remove", "interpolate", "source_switch"}

\* the suggested actions a rule name may come with
ActionsOfRule(rule) ==
    IF rule = "spikes.hampel" THEN {"winsorize", "remove"}
    ELSE IF rule = "gaps.missing_bdays" THEN {"interpolate"}
    ELSE IF rule = "gaps.stale" THEN {"review"}
    ELSE IF rule \in {"reconcile.abs_pct", "reconcile.returns_diff"} THEN {"source_switch"}
    ELSE IF rule = "relations.corr_break" THEN {"review"}
    ELSE IF rule \in FxTriangleRules THEN {"source_switch"}
    ELSE {}

\* an Issue or a DQException row with a severity in 1..100 and the action of
\* its rule
WellFormed(e) ==
    /\ e.severity \in 1..100
    /\ e.suggested_action \in SuggestedActions
    /\ e.suggested_action \in ActionsOfRule(e.rule)

\* C18: every Issue produced by any of the six rules, and every persisted
\* DQException, has an integer severity in 1..100 and a suggested_action in
\* {review, winsorize, remove, interpolate, source_switch}: Spike gives
\* winsorize or remove, MissingDates interpolate, Staleness review,
\* Reconciliation source_switch, CorrelationBreak review, FXTriangle
\* source_switch.
C18_SeverityAndAction ==
    /\ (probe.fn # None /\ probe.returned >= 1)
       => \A n \in 1..Len(probe.out) : WellFormed(probe.out[n])
    /\ \A c \in Calls : \A n \in 1..Len(call[c].ev.issues) :
          WellFormed(call[c].ev.issues[n])
    /\ \A i \in 1..Len(dqexception) : WellFormed(dqexception[i])

\* a finished run has persisted exceptions of four rules, with severities from
\* 55 to 99
C18_Witness ==
    /\ {"gaps.missing_bdays", "gaps.stale", "reconcile.abs_pct",
        "relations.fx_triangle.stooq"}
          \subseteq {dqexception[i].rule : i \in 1..Len(dqexception)}
    /\ {55, 99} \subseteq {dqexception[i].severity : i \in 1..Len(dqexception)}
    /\ \E c \in Calls : call[c].pc = "done"

\* ------------------------------------------------ the severity of ReconcileRule
\* how far the other series is above the flat primary, in ticks: not at all, at
\* the level tolerance (0.2 % of 1.0000), just above it, and up to 1.5 %
MagnitudeTicks == {0, 20, 21, 60, 100, 150}

\* RECON-like rules with consecutive = 1 on a flat primary and an other series
\* that is above it by any of the magnitudes on each date
MagnitudeProbes ==
    {[fn |-> "ReconcileRule.run",
      args |-> [self |-> ReconcileRule(AbsTolTicks, PctTolPerMille, RetTolMicro, 1, TRUE),
                series |-> FlatSeries(MaxDays),
                other |-> Some([i \in 1..MaxDays |-> [d |-> i, v |-> 10000 + m[i]]]),
                asset_class |-> "", mode |-> md, bits |-> <<>>],
      returned |-> 0, out |-> <<>>] :
        m \in [1..MaxDays -> MagnitudeTicks], md \in {"returns", "level"}}

\* the severity lines of run() alone, for a metric of num/den times the
\* tolerance: returns mode with the three calibrated tolerances, level mode with
\* a = 1.0000 and pct_tol
SeverityProbes ==
    {[fn |-> "ReconcileRule.severity",
      args |-> [mode |-> "returns", tol |-> tol, metric |-> (tol * f[1]) \div f[2]],
      returned |-> 0, out |-> 0] :
        tol \in {RetTolMicro, FxRetTolMicro, EqRetTolMicro},
        f \in {<<1, 1>>, <<3, 2>>, <<2, 1>>, <<9, 2>>, <<5, 1>>, <<6, 1>>}}
    \cup
    {[fn |-> "ReconcileRule.severity",
      args |-> [mode |-> "level", tol |-> PctTolPerMille,
                metric |-> (10 * PctTolPerMille * f[1]) \div f[2]],
      returned |-> 0, out |-> 0] :
        f \in {<<1, 1>>, <<3, 2>>, <<2, 1>>, <<9, 2>>, <<5, 1>>, <<6, 1>>}}

InitSeverity == NoRun /\ probe \in MagnitudeProbes \cup SeverityProbes

\* sev = int(min(100, 70 + 30 * min(1.0, metric / (5 * tol)))): metric is dv in
\* millionths in returns mode, abs_diff in ticks against a = 1.0000 in level mode
ApplySeverity ==
    /\ probe.fn = "ReconcileRule.severity"
    /\ probe.returned = 0
    /\ probe' = [probe EXCEPT !.returned = 1,
                   !.out = IF probe.args.mode = "returns"
                           THEN ReturnsSeverity(Num(probe.args.metric), probe.args.tol)
                           ELSE LevelSeverity(probe.args.metric, 10000, probe.args.tol)]
    /\ UNCHANGED <<observation, dqrun, dqexception, call>>

NextSeverity == ApplySeverity \/ ApplyReconcile

SpecSeverity == InitSeverity /\ [][NextSeverity]_vars

\* the metric of the severity probe is exactly the tolerance
AtTolerance ==
    IF probe.args.mode = "returns" THEN probe.args.metric = probe.args.tol
    ELSE probe.args.metric = 10 * probe.args.tol

\* the metric of the severity probe is at least 5 times the tolerance
AtFiveTimes ==
    IF probe.args.mode = "returns" THEN probe.args.metric >= 5 * probe.args.tol
    ELSE probe.args.metric >= 50 * probe.args.tol

\* the metric of issue e of a run on the flat primary is at least 5 times the
\* tolerance
IssueAtFiveTimes(e) ==
    IF e.details.mode = "returns"
    THEN e.details.ret_diff.k = "inf" \/ e.details.ret_diff.x >= 5 * e.details.ret_tol
    ELSE 1000 * e.details.abs_diff >= 5 * e.details.pct_tol * 10000

\* every issue of the returned run probe scores from lo to 100, and 100 exactly
\* when its metric is at least 5 times the tolerance
RunSeverities(lo) ==
    (probe.fn = "ReconcileRule.run" /\ probe.returned = 1)
    => \A n \in 1..Len(probe.out) :
          /\ probe.out[n].severity \in lo..100
          /\ IssueAtFiveTimes(probe.out[n]) <=> probe.out[n].severity = 100

OnlyEcbStored ==
    /\ ~(Stored("EURUSD", "twelvedata") /\ Stored("USDGBP", "twelvedata")
         /\ Stored("EURGBP", "twelvedata"))
    /\ ~(Stored("EURUSD", "stooq") /\ Stored("USDGBP", "stooq") /\ Stored("EURGBP", "stooq"))
    /\ Stored("EURUSD", "ecb_fx")
    /\ Stored("USDGBP", "ecb_fx_cross")
    /\ Stored("EURGBP", "ecb_fx")

\* C22 as stated: in every FX triangle evaluation of a run the three legs
\* EURUSD, USDGBP and EURGBP are taken from the same source name, for every
\* bucket including the ecb bucket.
C22_LegsOfOneSourceName ==
    \A c \in Calls :
        (call[c].pc \in {"evaluated", "done"} /\ call[c].ev.fx_bucket # None)
        => /\ call[c].ev.fx_legs[1] = call[c].ev.fx_legs[2]
           /\ call[c].ev.fx_legs[2] = call[c].ev.fx_legs[3]

\* C22, amended: the twelvedata and the stooq bucket take their three legs
\* from the source name of their label; the ecb bucket, evaluated exactly when
\* it is the first complete one, takes EURUSD and EURGBP from ecb_fx and USDGBP
\* from ecb_fx_cross.
C22_LegsOfOneVendor ==
    \A c \in Calls :
        (call[c].pc \in {"evaluated", "done"} /\ call[c].args.asset_class = "fx")
        => LET ev == call[c].ev
           IN /\ ev.fx_bucket \in {"twelvedata", "stooq"}
                 => ev.fx_legs = <<ev.fx_bucket, ev.fx_bucket, ev.fx_bucket>>
              /\ ev.fx_bucket = "ecb"
                 => ev.fx_legs = <<"ecb_fx", "ecb_fx_cross", "ecb_fx">>
              /\ ev.fx_bucket = "ecb" <=> OnlyEcbStored

\* an fx run has finished with the issues of the ecb bucket, whose USDGBP leg
\* came from ecb_fx_cross
C22_Witness ==
    \E c \in Calls :
        /\ call[c].pc = "done"
        /\ call[c].ev.fx_bucket = "ecb"
        /\ call[c].ev.fx_legs[2] = "ecb_fx_cross"
        /\ \E i \in 1..Len(dqexception) :
              /\ dqexception[i].rule = "relations.fx_triangle.ecb"
              /\ dqexception[i].dq_run_id = call[c].run_id

\* ------------------------------------------------- run_dq over the rates curve
InitRates ==
    /\ observation \in RatesStores
    /\ dqrun = <<>>
    /\ dqexception = <<>>
    /\ call = [c \in Calls |-> IdleCall]
    /\ probe = NoProbe

NextRates ==
    \E c \in Calls :
        \/ \E a \in RatesRunArgs : Begin(c, a)
        \/ \E ord \in RowOrders : Evaluate(c, ord)
        \/ Persist(c)
        \/ StoreError(c)

SpecRates == InitRates /\ [][NextRates]_vars

\* the source names under which observations of rf_id are stored
StoredNames(rf_id) == {n \in SourceNames : Stored(rf_id, n)}

\* the stored values of rf_id under the source name (in these stores a feed
\* holds one row per date, stored by ascending date)
StoredSeries(rf_id, name) ==
    LET hit == SelectSeq(observation,
                         LAMBDA r : r.risk_factor_id = rf_id
                                    /\ datasource[r.source_id].name = name)
    IN [i \in 1..Len(hit) |-> [d |-> hit[i].obs_date, v |-> hit[i].value]]

CorrBreakIssues(issues) == SelectSeq(issues, LAMBDA e : e.rule = "relations.corr_break")

\* the run of call c is the one CorrelationBreak is for
IsCurveRun(c) ==
    /\ call[c].args.asset_class = "rates"
    /\ call[c].args.risk_factor_id = "US10Y"
    /\ StoredNames("US2Y") # {}

\* what CorrBreakRule() returns for the stored US10Y series against the US2Y
\* series stored under each name
CurveBreaks ==
    [n \in DOMAIN US2YFeed |->
        CorrBreakRun(US10YFeed, Some(US2YFeed[n]), CorrWindow, CorrMinAbsPct)]

\* C23: CorrelationBreak is evaluated exactly when the asset class is rates,
\* the risk factor is US10Y and US2Y has a stored source; the peer is the
\* series of the lexicographically smallest source name of US2Y; no other run
\* persists a relations.corr_break exception, and a run without peer finishes.
C23_CorrBreakOnCurve ==
    \A c \in Calls :
        /\ call[c].pc \in {"evaluated", "done"}
           => /\ call[c].ev.corr_on <=> IsCurveRun(c)
              /\ IsCurveRun(c)
                 => \E n \in StoredNames("US2Y") :
                       /\ \A o \in StoredNames("US2Y") : LexRank(n) <= LexRank(o)
                       /\ StoredSeries("US2Y", n) = US2YFeed[n]
                       /\ call[c].ev.primary = US10YFeed
                       /\ CorrBreakIssues(call[c].ev.issues) = CurveBreaks[n]
              /\ ~IsCurveRun(c) => CorrBreakIssues(call[c].ev.issues) = <<>>
        /\ (call[c].pc = "done" /\ ~IsCurveRun(c))
           => CorrBreakIssues(RowsOfRun(dqexception, call[c].run_id)) = <<>>
        /\ (call[c].pc = "raised" /\ call[c].args.risk_factor_id = "US10Y")
           => call[c].err = "StoreError"

\* a US10Y rates run has persisted the correlation breaks against the fred
\* US2Y series although the stooq one was stored first, and a US10Y run under
\* another asset class has finished beside it without any
C23_Witness ==
    /\ StoredNames("US2Y") = {"fred", "stooq"}
    /\ \E c, o \in Calls :
          /\ call[c].pc = "done" /\ call[o].pc = "done"
          /\ IsCurveRun(c)
          /\ call[o].args.asset_class = "equities"
          /\ CorrBreakIssues(RowsOfRun(dqexception, call[c].run_id)) # <<>>
          /\ CorrBreakIssues(RowsOfRun(dqexception, call[o].run_id)) = <<>>

\* a US10Y rates run has finished without a stored US2Y source
C23_WitnessNoPeer ==
    /\ StoredNames("US2Y") = {}
    /\ \E c \in Calls :
          /\ call[c].pc = "done"
          /\ call[c].args.asset_class = "rates" /\ call[c].args.risk_factor_id = "US10Y"
          /\ dqrun[call[c].run_id].finished_at # NULL

\* ------------------------------------------------------ expected_dates alone
\* the days around the turn of the year: Friday 2021-12-24 (day -2) to Monday
\* 2022-01-24 (day 29)
CalendarDays == (-2)..29

\* expected_dates(asset_class, start, end) over the windows that start in the
\* two weeks around New Year
CalendarProbes ==
    UNION {{[fn |-> "expected_dates",
             args |-> [asset_class |-> ac, start |-> s, end |-> e],
             returned |-> 0, out |-> {}] :
               ac \in AssetClasses, e \in {d \in CalendarDays : d >= s - 1}} :
           s \in (-2)..10}

InitCalendar == NoRun /\ probe \in CalendarProbes

\* expected = expected_dates(asset_class, start, end)
ApplyCalendar ==
    /\ probe.fn = "expected_dates"
    /\ probe.returned = 0
    /\ probe' = [probe EXCEPT !.returned = 1,
                   !.out = expected_dates(probe.args.asset_class, probe.args.start,
                                          probe.args.end)]
    /\ UNCHANGED <<observation, dqrun, dqexception, call>>

SpecCalendar == InitCalendar /\ [][ApplyCalendar]_vars

\* the weekdays of the window of the probe
WeekdaysOfProbe == {d \in probe.args.start..probe.args.end : Weekday(d) \notin {5, 6}}

\* the dates of the fixed holidays of the TARGET-like set themselves
TargetFixedDates ==
    {HolidayDay.NewYearsDay, HolidayDay.ChristmasDay, HolidayDay.BoxingDay}

\* C24: for fx, expected_dates removes only the fixed holiday dates themselves,
\* without nearest-weekday shifting (Friday 31 December stays expected when
\* 1 January is a Saturday); for fx, equities and rates the result is a subset
\* of the weekdays of [start, end], which is exactly the result for
\* commodities.
C24_FxFixedDatesOnly ==
    (probe.fn = "expected_dates" /\ probe.returned = 1)
    => /\ probe.out \subseteq WeekdaysOfProbe
       /\ probe.args.asset_class = "commodities" => probe.out = WeekdaysOfProbe
       /\ probe.args.asset_class = "fx" => probe.out = WeekdaysOfProbe \ TargetFixedDates

\* --------------------------------------------------------- load_series alone
LoadProbes ==
    {[fn |-> "load_series", args |-> [rf_id |-> rf], returned |-> 0, out |-> <<>>] :
        rf \in DOMAIN riskfactor}

InitLoad ==
    /\ observation \in Stores \cup FxStores
    /\ dqrun = <<>>
    /\ dqexception = <<>>
    /\ call = [c \in Calls |-> IdleCall]
    /\ probe \in LoadProbes

\* series_by_src = load_series(risk_factor_id), the store returning the rows
\* in one of its orders
ApplyLoad ==
    /\ probe.fn = "load_series"
    /\ probe.returned = 0
    /\ \E ord \in RowOrders :
          probe' = [probe EXCEPT !.returned = 1,
                      !.out = load_series(observation, probe.args.rf_id, ord)]
    /\ UNCHANGED <<observation, dqrun, dqexception, call>>

SpecLoad == InitLoad /\ [][ApplyLoad]_vars

\* the positions in the Observation table of the rows of rf_id stored under
\* the source name for the date d
StoredAt(rf_id, name, d) ==
    {i \in 1..Len(observation) :
        /\ observation[i].risk_factor_id = rf_id
        /\ datasource[observation[i].source_id].name = name
        /\ observation[i].obs_date = d}

\* the value of the last stored of these rows
LastStored(rows) == observation[CHOOSE i \in rows : \A j \in rows : j <= i].value

\* s holds one value per date, by strictly ascending date
StrictlyAscending(s) == \A i \in 1..(Len(s) - 1) : s[i].d < s[i + 1].d

\* C25: whatever the Observation table holds (several rows of one risk
\* factor, source name and date included), every series load_series returns
\* has at most one value per date, by strictly ascending date, and on a date
\* with several stored rows the value kept is the one of the last stored row.
C25_KeepLastStored ==
    (probe.fn = "load_series" /\ probe.returned = 1)
    => \A name \in DOMAIN probe.out :
          LET s == probe.out[name]
          IN /\ StrictlyAscending(s)
             /\ \A i \in 1..Len(s) :
                   s[i].v = LastStored(StoredAt(probe.args.rf_id, name, s[i].d))

\* ------------------------------------- run_dq with windows that miss the feeds
NextWindow ==
    \E c \in Calls :
        \/ \E a \in WindowRunArgs : Begin(c, a)
        \/ \E ord \in RowOrders : Evaluate(c, ord)
        \/ Persist(c)
        \/ StoreError(c)

SpecWindow == InitFx /\ [][NextWindow]_vars

\* the rules run_dq gives the primary series alone
PrimaryRules == {"spikes.hampel", "gaps.missing_bdays", "gaps.stale"}

PrimaryIssues(issues) == SelectSeq(issues, LAMBDA e : e.rule \in PrimaryRules)

\* the selected primary source of call c holds no observation of the risk
\* factor inside the window of the run
NothingInWindow(c) ==
    ~\E i \in 1..Len(observation) :
        /\ observation[i].risk_factor_id = call[c].args.risk_factor_id
        /\ datasource[observation[i].source_id].name = call[c].ev.primary_src
        /\ observation[i].obs_date >= call[c].args.asof - call[c].args.lookback_days
        /\ observation[i].obs_date <= call[c].args.asof

\* C26: when the selected primary source has no observation inside
\* [asof - lookback_days, asof], the run raises no error and finishes, and
\* Spike, MissingDates and Staleness contribute no issue, whatever dates are
\* expected in the window.
C26_EmptyPrimary ==
    \A c \in Calls :
        /\ (call[c].pc \in {"evaluated", "done"} /\ NothingInWindow(c))
           => /\ call[c].ev.primary = EmptySeries
              /\ PrimaryIssues(call[c].ev.issues) = <<>>
        /\ (call[c].pc = "done" /\ NothingInWindow(c))
           => /\ dqrun[call[c].run_id].finished_at # NULL
              /\ PrimaryIssues(RowsOfRun(dqexception, call[c].run_id)) = <<>>
        /\ call[c].pc = "raised" => call[c].err = "StoreError"

\* an fx run whose window (days 7..8) lies after every observation has
\* finished without an issue of the three rules, although Monday, day 8, was
\* expected
C26_Witness ==
    \E c \in Calls :
        /\ call[c].pc = "done"
        /\ call[c].args.asset_class = "fx"
        /\ call[c].args.asof - call[c].args.lookback_days = MaxLen + 2
        /\ NothingInWindow(c)
        /\ Stored("EURUSD", call[c].ev.primary_src)
        /\ expected_dates("fx", MaxLen + 2, call[c].args.asof) # {}
        /\ dqrun[call[c].run_id].finished_at # NULL
        /\ PrimaryIssues(RowsOfRun(dqexception, call[c].run_id)) = <<>>

\* ------------------------------------------------ the final session of run_dq
\* C27: the exceptions and the completion timestamp of a run are committed
\* together: in every reachable state a DQRun whose finished_at is null has no
\* DQException row with its id, so an aborted run leaves no partial exception
\* set in the store.
C27_NoRowsOfUnfinishedRun ==
    \A r \in 1..Len(dqrun) :
        dqrun[r].finished_at = NULL => RowsOfRun(dqexception, r) = <<>>

\* a run whose final session failed is left unfinished and without rows
\* beside a finished run that has its exceptions
C27_Witness ==
    \E c, o \in Calls :
        /\ call[c].pc = "raised" /\ call[c].err = "StoreError"
        /\ call[c].run_id \in 1..Len(dqrun)
        /\ dqrun[call[c].run_id].finished_at = NULL
        /\ RowsOfRun(dqexception, call[c].run_id) = <<>>
        /\ call[o].pc = "done"
        /\ call[o].args = call[c].args
        /\ RowsOfRun(dqexception, call[o].run_id) # <<>>

\* ------------------------------------------ the dates of the persisted exceptions
\* C28: every DQException persisted by a run has its obs_date inside the
\* evaluation window [asof - lookback_days, asof] of the run, for every rule,
\* Reconciliation, CorrelationBreak and FXTriangle included.
C28_ObsDateInWindow ==
    \A i \in 1..Len(dqexception) :
        LET run == dqrun[dqexception[i].dq_run_id]
        IN /\ dqexception[i].obs_date >= run.asof - run.parameters.lookback_days
           /\ dqexception[i].obs_date <= run.asof

\* ---------------------------------------------- HampelRule: severity and action
\* a series on the dates 1..n that is flat (step = 0) or moves by step with
\* period 3, with a jump on date p
JumpSeries(n, step, p, jump) ==
    [i \in 1..n |-> [d |-> i, v |-> 10000 + step * (i % 3) + (IF i = p THEN jump ELSE 0)]]

\* the jumps, in ticks: none, below 6 sigmas, between 6 and 12 sigmas of a
\* series moving by 10 ticks, and beyond
JumpTicks == {0, 60, 100, 150, 200, 5000}

\* SPIKE = HampelRule() and HampelRule(n_sigmas=3) on flat and on moving series
\* of 30 and more dates
SpikeProbes ==
    {[fn |-> "HampelRule.run",
      args |-> [series |-> JumpSeries(n, st, p, j), window |-> HampelWindow, n_sigmas |-> ns],
      returned |-> 0, out |-> <<>>] :
        n \in HampelMinLen..(HampelMinLen + 1), st \in {0, 10}, p \in {3, 12, 13, 20},
        j \in JumpTicks, ns \in {3, HampelNSigmas}}

InitSpike == NoRun /\ probe \in SpikeProbes

SpecSpike == InitSpike /\ [][ApplyHampel]_vars

\* |z| of the issue is at least t: |num| >= t * den
ZAtLeast(e, t) == Abs(e.details.z_robust_num) >= t * e.details.z_robust_den

\* all values of s but at most one are equal, which makes the median of the
\* absolute deviations 0 in every window of s
FlatButOne(s) ==
    \E v \in {s[i].v : i \in 1..Len(s)} : Cardinality({i \in 1..Len(s) : s[i].v # v}) <= 1

\* C29: with the default n_sigmas = 6 every issue of HampelRule has severity
\* exactly 100, its action is "winsorize" when 6 <= |z| < 12 and "remove" when
\* |z| >= 12, and no issue is raised on a date whose rolling MAD is 0.
C29_SeverityAndAction ==
    (probe.fn = "HampelRule.run" /\ probe.returned = 1
     /\ probe.args.n_sigmas = HampelNSigmas)
    => /\ \A n \in 1..Len(probe.out) :
             LET e == probe.out[n]
             IN /\ e.severity = 100
                /\ e.details.z_robust_den > 0
                /\ ZAtLeast(e, 6)
                /\ e.suggested_action = (IF ZAtLeast(e, 12) THEN "remove" ELSE "winsorize")
       /\ FlatButOne(probe.args.series) => probe.out = <<>>

\* the default rule has returned one issue to winsorize for a jump of 100
\* ticks in a moving series
C29_Witness ==
    /\ probe.fn = "HampelRule.run"
    /\ probe.returned = 1
    /\ probe.args.n_sigmas = HampelNSigmas
    /\ Len(probe.out) = 1
    /\ probe.out[1].suggested_action = "winsorize"
    /\ probe.out[1].severity = 100
    /\ probe.args.series[probe.out[1].obs_date].v >= 10100

\* the default rule has returned an issue to remove
C29_WitnessRemove ==
    /\ probe.fn = "HampelRule.run"
    /\ probe.returned = 1
    /\ probe.args.n_sigmas = HampelNSigmas
    /\ \E n \in 1..Len(probe.out) : probe.out[n].suggested_action = "remove"

\* the default rule has returned nothing for a flat series with a jump of
\* 5000 ticks
C29_WitnessZeroMad ==
    /\ probe.fn = "HampelRule.run"
    /\ probe.returned = 1
    /\ probe.args.n_sigmas = HampelNSigmas
    /\ probe.args.series[1].v = probe.args.series[2].v
    /\ probe.args.series[12].v = 15000
    /\ probe.out = <<>>

\* ------------------------------------------------ run_dq_for_all (bootstrap.py)
\* run_dq_for_all(asof, lookback_days) at its start: the loop is before the
\* first risk factor, run_ids is empty
BatchProbe ==
    [fn |-> "run_dq_for_all", args |-> [asof |-> MaxLen + 3, lookback_days |-> MaxLen + 1],
     pos |-> 1, run_ids |-> <<>>, state |-> "loop"]

InitBatch ==
    /\ observation \in BatchStores
    /\ dqrun = <<>>
    /\ dqexception = <<>>
    /\ call = [c \in Calls |-> IdleCall]
    /\ probe = BatchProbe

\* the loop calls run_dq for the risk factor at pos (the calls of the loop
\* run one after another, as call 1)
BatchCall ==
    /\ probe.fn = "run_dq_for_all" /\ probe.state = "loop"
    /\ probe.pos <= Len(list_risk_factors)
    /\ Begin(1, [asset_class |-> list_risk_factors[probe.pos].asset_class,
                 risk_factor_id |-> list_risk_factors[probe.pos].id,
                 asof |-> probe.args.asof, lookback_days |-> probe.args.lookback_days])

\* the steps of the run_dq call under way
BatchStep ==
    /\ probe.fn = "run_dq_for_all" /\ probe.state = "loop"
    /\ Step(1)

\* run_ids.append(run_dq(...)), on to the next risk factor
BatchAppend ==
    /\ probe.fn = "run_dq_for_all" /\ probe.state = "loop"
    /\ call[1].pc = "done"
    /\ probe' = [probe EXCEPT !.run_ids = Append(@, call[1].run_id), !.pos = @ + 1]
    /\ call' = [call EXCEPT ![1] = IdleCall]
    /\ UNCHANGED <<observation, dqrun, dqexception>>

\* variant: a run that raises is skipped and the loop goes on
BatchSkip ==
    /\ probe.fn = "run_dq_for_all" /\ probe.state = "loop"
    /\ call[1].pc = "raised"
    /\ probe' = [probe EXCEPT !.pos = @ + 1]
    /\ call' = [call EXCEPT ![1] = IdleCall]
    /\ UNCHANGED <<observation, dqrun, dqexception>>

\* run_dq has raised: the loop has no handler, the error leaves
\* run_dq_for_all
BatchRaise ==
    /\ probe.fn = "run_dq_for_all" /\ probe.state = "loop"
    /\ call[1].pc = "raised"
    /\ probe' = [probe EXCEPT !.state = "raised"]
    /\ UNCHANGED <<observation, dqrun, dqexception, call>>

\* return run_ids
BatchReturn ==
    /\ probe.fn = "run_dq_for_all" /\ probe.state = "loop"
    /\ call[1].pc = "idle"
    /\ probe.pos > Len(list_risk_factors)
    /\ probe' = [probe EXCEPT !.state = "returned"]
    /\ UNCHANGED <<observation, dqrun, dqexception, call>>

NextBatch ==
    \/ BatchCall
    \/ BatchStep
    \/ BatchAppend
    \/ BatchRaise
    \/ BatchReturn

SpecBatch == InitBatch /\ [][NextBatch]_vars

\* x comes before y in the order (asset_class, id)
BeforeInOrder(x, y) ==
    \/ AssetClassRank(x.asset_class) < AssetClassRank(y.asset_class)
    \/ /\ x.asset_class = y.asset_class
       /\ \E i, j \in 1..Len(RiskFactorIdsSorted) :
             i < j /\ RiskFactorIdsSorted[i] = x.risk_factor_id
                   /\ RiskFactorIdsSorted[j] = y.risk_factor_id

\* the DQRun rows are runs of distinct risk factors of the table in the order
\* (asset_class, id), none left out, and every run but the newest is finished
RunsInOrder ==
    /\ \A r \in 1..Len(dqrun) :
          /\ dqrun[r].risk_factor_id \in DOMAIN riskfactor
          /\ dqrun[r].asset_class = riskfactor[dqrun[r].risk_factor_id]
          /\ Cardinality({id \in DOMAIN riskfactor :
                             BeforeInOrder([asset_class |-> riskfactor[id],
                                            risk_factor_id |-> id], dqrun[r])}) = r - 1
    /\ \A r \in 1..(Len(dqrun) - 1) : dqrun[r].finished_at # NULL

\* C30: run_dq_for_all runs the risk factors one after another in the order
\* (asset_class, id) and stops at the first run that raises: the error
\* propagates, the earlier runs stay finished with their exceptions, the
\* failing run stays unfinished and no later risk factor gets a run record.
C30_StopsAtFirstError ==
    /\ [](probe.fn = "run_dq_for_all"
          => /\ RunsInOrder
             /\ probe.run_ids = [r \in 1..Len(probe.run_ids) |-> r]
             /\ probe.state = "raised"
                => /\ Len(dqrun) = Len(probe.run_ids) + 1
                   /\ dqrun[Len(dqrun)].finished_at = NULL
                   /\ RowsOfRun(dqexception, Len(dqrun)) = <<>>
             /\ probe.state = "returned"
                => /\ Len(probe.run_ids) = Cardinality(DOMAIN riskfactor)
                   /\ Len(dqrun) = Len(probe.run_ids)
                   /\ dqrun[Len(dqrun)].finished_at # NULL)
    /\ [][(probe.fn = "run_dq_for_all" /\ probe.state = "raised")
          => UNCHANGED <<dqrun, dqexception, probe>>]_vars

\* the runs of the three fx risk factors are finished, with exceptions, the
\* run of US10Y found no observation and its error has left run_dq_for_all:
\* there is no run of US2Y although its observations are stored
C30_Witness ==
    /\ probe.fn = "run_dq_for_all"
    /\ probe.state = "raised"
    /\ probe.run_ids = <<1, 2, 3>>
    /\ Len(dqrun) = 4
    /\ dqrun[4].risk_factor_id = "US10Y"
    /\ call[1].err = "NoObservations"
    /\ Stored("US2Y", "fred")
    /\ \A r \in 1..3 : dqrun[r].finished_at # NULL
    /\ \E i \in 1..Len(dqexception) : dqexception[i].dq_run_id = 2

\* run_dq_for_all has returned the ids of five finished runs
C30_WitnessReturned ==
    /\ probe.fn = "run_dq_for_all"
    /\ probe.state = "returned"
    /\ probe.run_ids = <<1, 2, 3, 4, 5>>
    /\ dqrun[5].risk_factor_id = "US2Y"

=============================================================================
